---------------------------- MODULE Spec2Model ----------------------------
(***************************************************************************)
(* Gopher: a Redis-backed job queue.  The model covers the queue layer     *)
(* (RedisQueue, PriorityQueue), the job helpers, the handler registry and  *)
(* the worker pool, with the broker (Redis) as the shared state.           *)
(*                                                                         *)
(* A Redis list is a sequence whose first element is the head of the list: *)
(* LPUSH puts an element in front, BRPOP takes the last one.               *)
(***************************************************************************)
EXTENDS Integers, Sequences, FiniteSets, TLC

(***************************************************************************)
(* Bounds of the model.                                                    *)
(***************************************************************************)
\* number of jobs the producers create (each gets a fresh id)
MaxJobs == 2
\* largest max_retries a producer asks for
MaxCap == 3
\* workers of the pool (config.Concurrency)
Concurrency == 2
\* largest attempt count the backoff computation is applied to
MaxAttempt == 70

(***************************************************************************)
(* Values.  A Job is the Go struct (fields ID, Type, Payload, Attempts,    *)
(* MaxRetries, Metadata); Metadata is the value stored under the key       *)
(* "priority" of the metadata map, tagged with its dynamic Go type, or     *)
(* absent.  The lists of the broker hold the JSON text of a job: a record  *)
(* with the wire field names, whose metadata value is tagged with its JSON *)
(* type.                                                                   *)
(***************************************************************************)
Absent == [kind |-> "absent", val |-> ""]
StrVal(s) == [kind |-> "string", val |-> s]
IntVal(s) == [kind |-> "int", val |-> s]

NoJob == [ID |-> "", Type |-> "", Payload |-> "", Attempts |-> 0,
          MaxRetries |-> 0, Metadata |-> Absent]
NoData == [id |-> "", type |-> "", payload |-> "", attempts |-> 0,
           max_retries |-> 0, metadata |-> Absent]

IdTable == <<"job_1", "job_2", "job_3", "job_4", "job_5", "job_6">>

PriorityHigh == "high"
PriorityNormal == "normal"
PriorityLow == "low"

jobQueueKey == "job_queue"
highPriorityQueueKey == "queue:high"
normalPriorityQueueKey == "queue:normal"
lowPriorityQueueKey == "queue:low"

QueueKeys == {jobQueueKey, highPriorityQueueKey, normalPriorityQueueKey,
              lowPriorityQueueKey}
PriorityKeys == <<highPriorityQueueKey, normalPriorityQueueKey, lowPriorityQueueKey>>
Priorities == {PriorityHigh, PriorityNormal, PriorityLow}

\* What a producer may put under metadata["priority"]: nothing, one of the
\* three priorities, another string, or a value that is not a string.
PriorityVals == {Absent, StrVal("high"), StrVal("normal"), StrVal("low"),
                 StrVal("urgent"), IntVal("7")}

\* Job types a producer may name; "" is the empty type.
Types == {"", "echo", "flaky", "always_fails"}
\* Payloads a producer may send: empty, compact JSON, the same JSON with
\* insignificant white space, and text that is not JSON.
Payloads == {"", "{\"x\":1}", "{ \"x\": 1 }", "{x"}
Caps == (0 - 1) .. MaxCap

Workers == 1 .. Concurrency

(***************************************************************************)
(* pkg/types: the Job methods.                                             *)
(***************************************************************************)
\* Job.Validate: the error, or "" for nil.
ValidateNoPayloadCheck(j) ==
    IF j.ID = "" THEN "job ID cannot be empty"
    ELSE IF j.Type = "" THEN "job type cannot be empty"
    ELSE IF j.MaxRetries < 0 THEN "max retries cannot be empty"
    ELSE ""

Validate(j) ==
    IF j.ID = "" THEN "job ID cannot be empty"
    ELSE IF j.Type = "" THEN "job type cannot be empty"
    ELSE IF Len(j.Payload) = 0 THEN "job payload cannot be empty"
    ELSE IF j.MaxRetries < 0 THEN "max retries cannot be empty"
    ELSE ""

ShouldRetry(j) == j.Attempts < j.MaxRetries

IncrementAttemptsTwice(j) == [j EXCEPT !.Attempts = @ + 2]

IncrementAttempts(j) == [j EXCEPT !.Attempts = @ + 1]

\* Job.GetMetadata("priority"): <<value, ok>>.
GetMetadata(j) == <<j.Metadata, j.Metadata.kind # "absent">>

\* Job.GetPriority: "normal" when the key is absent or its value is not a
\* string; any string is returned as it is.
GetPriority(j) ==
    LET r == GetMetadata(j)
    IN  IF ~r[2] THEN "normal"
        ELSE IF r[1].kind # "string" THEN "normal"
        ELSE r[1].val

\* NewJob: a job as a producer creates it (Attempts 0).
NewJob(id, type, payload, cap, prio) ==
    [ID |-> id, Type |-> type, Payload |-> payload, Attempts |-> 0,
     MaxRetries |-> cap, Metadata |-> prio]

(***************************************************************************)
(* encoding/json as the queues use it.  A payload is a json.RawMessage:    *)
(* Marshal fails on a payload that is not JSON and writes a valid one in   *)
(* compact form.  A metadata value of a Go number type is written as a     *)
(* JSON number and read back as a float64.                                 *)
(***************************************************************************)
ValidJSON(p) == p \in {"{\"x\":1}", "{ \"x\": 1 }"}
Compact(p) == IF p = "{ \"x\": 1 }" THEN "{\"x\":1}" ELSE p

EncodeValue(v) == IF v.kind \in {"int", "float64"} THEN [kind |-> "number", val |-> v.val] ELSE v
DecodeValue(v) == IF v.kind = "number" THEN [kind |-> "float64", val |-> v.val] ELSE v

\* json.Marshal(job): <<data, ok>>.
Marshal(j) ==
    IF ValidJSON(j.Payload)
    THEN <<[id |-> j.ID, type |-> j.Type, payload |-> Compact(j.Payload),
            attempts |-> j.Attempts, max_retries |-> j.MaxRetries,
            metadata |-> EncodeValue(j.Metadata)], TRUE>>
    ELSE <<NoData, FALSE>>

\* json.Unmarshal(data, &job)
Unmarshal(d) ==
    [ID |-> d.id, Type |-> d.type, Payload |-> d.payload, Attempts |-> d.attempts,
     MaxRetries |-> d.max_retries, Metadata |-> DecodeValue(d.metadata)]

(***************************************************************************)
(* State.                                                                  *)
(***************************************************************************)
VARIABLES
    \* the broker
    lists,              \* key -> sequence of job data, head first
    queue_stats,        \* the hash queue_stats
    priority_counters,  \* the hash priority_counters
    dlq,                \* the list dlq:jobs
    \* the worker process (cmd/worker): its memory is lost when it ends
    procUp,             \* the process is running
    cancelled,          \* Pool.Stop has cancelled the pool context
    wpc,                \* worker -> "idle" | "holding" | "returned"
    wjob,               \* worker -> the job it has dequeued
    wstats,             \* worker -> jobsProcessed, jobsFailed, jobsRetried
    retryTasks,         \* the detached retry goroutines: job and delay
    statTasks,          \* goroutines of RedisQueue.Dequeue still to count a pop
    \* history
    nextId,             \* index of the next fresh job id
    accepted,           \* id -> the job as Enqueue accepted it
    track,              \* id -> what the workers did with the job (NoTrack)
    delivered,          \* ids a PriorityQueue.Dequeue call returned to its caller
    lastOp,             \* the last queue call: its kind, argument and error
    \* the PriorityQueue of a process
    priorityRatio,      \* priority -> weight (PriorityQueue.priorityRatio)
    \* the scheduled queue
    scheduled_jobs,     \* the sorted set scheduled_jobs: members with their scores
    scheduled_stats,    \* the hash scheduled_stats
    now,                \* the clock, in minutes
    tpc,                \* ticker -> where it is in ProcessDueJobs
    tdue,               \* ticker -> the due members it still has to process
    tcount,             \* ticker -> processedCount of its call; the entries the call enqueued, and skipped
    promoted,           \* id -> how often ProcessDueJobs enqueued the job
    moved,              \* ids of the entries ProcessDueJobs has counted as processed
    oneTime,            \* id -> the time Schedule has accepted the job for
    recurring,          \* cron expressions ScheduleRecurring has accepted
    \* the dead letter queue
    dlq_stats,          \* the hash dlq:stats
    \* a Registry and the goroutines calling Register
    handlers,           \* Registry.handlers: type -> handler
    mu,                 \* Registry.mu: the goroutine holding it, 0 when free
    rpc,                \* goroutine -> where it is in Register
    rarg,               \* goroutine -> the handler it registers
    regLog,             \* the Register calls that returned: handler and error
    \* the rate limiters
    localLimiter,       \* the LocalRateLimiter: its maps and defaults
    clock,              \* time.Now(), in ticks of 1/Scale second
    allowLog,           \* the Allow calls that returned: type, time and answer
    redisLimiter,       \* the RedisRateLimiter of the processes: its defaults
    rl_limits,          \* the hashes <prefix>:limits:<type>: field -> value
    rl_tokens,          \* the strings <prefix>:tokens:<type>
    apc,                \* caller -> where it is in RedisRateLimiter.Allow
    aread,              \* caller -> the type, newTokens and now of its call
    \* Pool.Stop and the metrics goroutine of the pool
    stopPc,             \* "idle" | "waiting" (in the select) | "nil" | "timeout"
    stopElapsed,        \* ticks since Pool.Stop created its timer
    fired,              \* the timer of Pool.Stop has fired
    aggPc,              \* collectMetrics: "none" | "running" | "returned"
    \* goroutines inside PriorityQueue.Dequeue and inside RedisDLQ.Reprocess
    cpc,                \* consumer -> "idle" | "selected" | "waiting" | "popped"
    cloc,               \* consumer -> the list it selected and the entry it popped
    ppc,                \* caller -> "idle" | "found" | "removed" | "requeued"
    ploc                \* caller -> the DLQ entry its LRANGE found

vars == <<lists, queue_stats, priority_counters, dlq, procUp, cancelled, wpc, wjob,
          wstats, retryTasks, statTasks, nextId, accepted, track, delivered,
          lastOp, priorityRatio, scheduled_jobs, scheduled_stats, now, tpc, tdue, tcount,
          promoted, moved, oneTime, recurring, dlq_stats, handlers, mu, rpc, rarg,
          localLimiter, clock, allowLog, redisLimiter, rl_limits, rl_tokens, apc, aread,
          stopPc, stopElapsed, fired, aggPc, cpc, cloc, ppc, ploc,
          regLog>>

brokerVars == <<lists, queue_stats, priority_counters, dlq>>
procVars == <<procUp, cancelled, wpc, wjob, wstats, retryTasks, statTasks>>
histVars == <<nextId, accepted, track, delivered>>
schedVars == <<scheduled_jobs, scheduled_stats, now, tpc, tdue, tcount, promoted, moved,
               oneTime, recurring>>
regVars == <<handlers, mu, rpc, rarg, regLog>>
redisVars == <<redisLimiter, rl_limits, rl_tokens, apc, aread>>
limVars == <<localLimiter, clock, allowLog, redisVars>>
stopVars == <<stopPc, stopElapsed, fired, aggPc>>
conVars == <<cpc, cloc>>
repVars == <<ppc, ploc>>
callVars == <<conVars, repVars>>
moreVars == <<dlq_stats, regVars, limVars, stopVars, callVars>>
restVars == <<priorityRatio, schedVars, moreVars>>

NoQueueStats == [total_enqueued |-> 0, total_dequeued |-> 0,
                 enqueued |-> [p \in Priorities |-> 0],
                 dequeued |-> [p \in Priorities |-> 0]]
ZeroStats == [jobsProcessed |-> 0, jobsFailed |-> 0, jobsRetried |-> 0]
\* lastOp: the method called, whether the job handed over was complete,
\* the state of the broker during the call ("ok", "down", or "stats": only
\* the statistics update fails; for Reprocess also "lrem" and "enqueue":
\* only that command fails), the error returned ("" for nil) and the id
\* of the job handed over or returned (for selectQueueByRatio: the key of
\* the list selected), and the job returned (NoJob when there is none).
NoOp == [op |-> "none", wellFormed |-> TRUE, broker |-> "ok", err |-> "", id |-> "",
         job |-> NoJob]
\* What is remembered of a job the workers have touched: how often it was
\* dispatched, the attempt counter of the last dispatch, how that dispatch
\* ended ("completed", "failed", "retrying", "panic"; "abandoned" when the
\* process ended while a worker held the job) and the retry delays so far.
NoTrack == [dispatches |-> 0, attempts |-> 0, outcome |-> "", delays |-> <<>>]

\* RPUSH key data: insertion at the end BRPOP consumes from
RPush(l, key, data) == [l EXCEPT ![key] = @ \o <<data>>]
\* LPUSH key data
LPush(l, key, data) == [l EXCEPT ![key] = <<data>> \o @]
\* the element BRPOP key returns, and the list after it
LastOf(l, key) == l[key][Len(l[key])]
RPopKeep(l, key) == l
RPop(l, key) == [l EXCEPT ![key] = SubSeq(@, 1, Len(@) - 1)]

(***************************************************************************)
(* internal/queue/redis.go: RedisQueue.                                    *)
(***************************************************************************)
\* RedisQueue.Enqueue(job) with the broker reachable or not: the error
\* ("" for nil) and the broker after the call.
RedisQueueEnqueue(j, brokerOk) ==
    IF Validate(j) # ""
    THEN [err |-> "job validation failed", lists |-> lists, stats |-> queue_stats]
    ELSE IF ~Marshal(j)[2]
    THEN [err |-> "failed to marshal job", lists |-> lists, stats |-> queue_stats]
    ELSE IF ~brokerOk
    THEN [err |-> "failed to enqueue job", lists |-> lists, stats |-> queue_stats]
    ELSE [err |-> "",
          lists |-> LPush(lists, jobQueueKey, Marshal(j)[1]),
          stats |-> [queue_stats EXCEPT !.total_enqueued = @ + 1]]

(***************************************************************************)
(* internal/queue/priority.go: PriorityQueue.                              *)
(***************************************************************************)
\* The priority Enqueue routes by: high or low when the metadata says so,
\* normal otherwise.
EnqueuePriority(j) ==
    IF j.Metadata.kind # "absent" /\ j.Metadata.kind = "string"
       /\ j.Metadata.val \in {PriorityHigh, PriorityLow}
    THEN j.Metadata.val
    ELSE PriorityNormal

QueueKeyOf(priority) ==
    CASE priority = PriorityHigh -> highPriorityQueueKey
      [] priority = PriorityLow -> lowPriorityQueueKey
      [] OTHER -> normalPriorityQueueKey

PriorityQueueEnqueue(j, brokerOk) ==
    IF Validate(j) # ""
    THEN [err |-> "job validation failed", lists |-> lists, stats |-> queue_stats]
    ELSE IF ~Marshal(j)[2]
    THEN [err |-> "failed to marshal job", lists |-> lists, stats |-> queue_stats]
    ELSE IF ~brokerOk
    THEN [err |-> "failed to enqueue job", lists |-> lists, stats |-> queue_stats]
    ELSE [err |-> "",
          lists |-> LPush(lists, QueueKeyOf(EnqueuePriority(j)), Marshal(j)[1]),
          stats |-> [queue_stats EXCEPT !.total_enqueued = @ + 1,
                                        !.enqueued[EnqueuePriority(j)] = @ + 1]]

\* a PriorityQueue that weighs the three priorities alike
EqualRatio == [high |-> 1, normal |-> 1, low |-> 1]
\* NewPriorityQueue: the default processing ratio.
DefaultRatio == [high |-> 5, normal |-> 3, low |-> 1]

\* PriorityQueue.selectQueueByRatio(counters).  The ratios W/(C+1) are
\* compared as fractions: W1/(C1+1) >= W2/(C2+1) iff W1*(C2+1) >= W2*(C1+1)
\* (the counters are not negative; the float64 quotients of the code order
\* as the fractions do while the products stay below 2^53).
RatioGT(p, q, counters) ==
    priorityRatio[p] * (counters[q] + 1) > priorityRatio[q] * (counters[p] + 1)
RatioGE(p, q, counters) ==
    priorityRatio[p] * (counters[q] + 1) >= priorityRatio[q] * (counters[p] + 1)

selectQueueByRatio(counters) ==
    IF RatioGE(PriorityHigh, PriorityNormal, counters)
       /\ RatioGE(PriorityHigh, PriorityLow, counters)
    THEN highPriorityQueueKey
    ELSE IF RatioGE(PriorityNormal, PriorityHigh, counters)
            /\ RatioGE(PriorityNormal, PriorityLow, counters)
    THEN normalPriorityQueueKey
    ELSE lowPriorityQueueKey

\* The first key of high, normal, low that is not the selected one: the
\* list the fall-through loop blocks on (BRPOP with timeout 0).
FirstOther(queueKey) ==
    IF queueKey = highPriorityQueueKey THEN normalPriorityQueueKey
    ELSE highPriorityQueueKey

\* The list PriorityQueue.Dequeue pops from, "" when it pops nothing: the
\* selected list, or the first other list when the selected one is empty.
DequeueSource(l, counters) ==
    LET queueKey == selectQueueByRatio(counters)
    IN  IF Len(l[queueKey]) > 0 THEN queueKey
        ELSE IF Len(l[FirstOther(queueKey)]) > 0 THEN FirstOther(queueKey)
        ELSE ""

PriorityOfKey(key) ==
    CASE key = highPriorityQueueKey -> PriorityHigh
      [] key = lowPriorityQueueKey -> PriorityLow
      [] OTHER -> "normal"

(***************************************************************************)
(* internal/job/registry.go and the handlers.                              *)
(***************************************************************************)
\* A context is the set of keys it carries a value for.  A key is compared
\* with its dynamic type: the worker's key is a contextKey, the registry
\* asks for a string.
startTimeKey == [type |-> "contextKey", name |-> "start_time"]
StringKey(name) == [type |-> "string", name |-> name]
WithValue(ctx, key) == ctx \cup {key}
\* ctx.Value(key): the dynamic type of the value found, "nil" when none
CtxValue(ctx, key) == IF key \in ctx THEN "int64" ELSE "nil"

\* The handlers the worker registers, by type.
Registered == {"echo", "flaky", "always_fails"}
\* handler.Handle(ctx, job): the error, "" for nil.  echo succeeds,
\* always_fails fails with "E", flaky fails its first two attempts.
Handle(j) ==
    CASE j.Type = "always_fails" -> "E"
      [] j.Type = "flaky" /\ j.Attempts < 3 -> "E"
      [] OTHER -> ""

\* Registry.Process(ctx, job): the JobResult, or a panic of the type
\* assertion ctx.Value("start_time").(int64).
Process(ctx, j) ==
    IF CtxValue(ctx, StringKey("start_time")) # "int64"
    THEN [Status |-> "panic", Error |-> "interface conversion"]
    ELSE IF j.Type \notin Registered
    THEN [Status |-> "failed", Error |-> "no handler registeed for job type"]
    ELSE IF Handle(j) # ""
    THEN [Status |-> "failed", Error |-> Handle(j)]
    ELSE [Status |-> "completed", Error |-> ""]

(***************************************************************************)
(* time.Duration: a signed 64-bit count of nanoseconds, kept as 8 bytes,   *)
(* least significant first, so that arithmetic wraps as int64 does.        *)
(***************************************************************************)
Limbs == 1 .. 8
Zero64 == [i \in Limbs |-> 0]
\* the int64 of a natural number below 2^31
Nat64(n) == [i \in Limbs |-> IF i <= 4 THEN (n \div (256 ^ (i - 1))) % 256 ELSE 0]
\* 1 << s as int64: 0 once the shift count reaches the width
Pow2x64(s) ==
    IF s >= 64 THEN Zero64
    ELSE [i \in Limbs |-> IF i = (s \div 8) + 1 THEN 2 ^ (s % 8) ELSE 0]
\* x * y as int64 (the low 64 bits of the product)
Mul64(x, y) ==
    LET col(k) ==
            LET S[i \in 0 .. 8] ==
                    IF i = 0 THEN 0
                    ELSE S[i - 1] + (IF i <= k THEN x[i] * y[k + 1 - i] ELSE 0)
            IN  S[8]
        carry[k \in 1 .. 9] ==
            IF k = 1 THEN 0 ELSE (col(k - 1) + carry[k - 1]) \div 256
    IN  [k \in Limbs |-> (col(k) + carry[k]) % 256]
IsNeg64(x) == x[8] >= 128
\* x > y, unsigned, from byte i down
UGt64(x, y) ==
    LET G[i \in 0 .. 8] ==
            IF i = 0 THEN FALSE
            ELSE IF x[i] # y[i] THEN x[i] > y[i]
            ELSE G[i - 1]
    IN  G[8]
\* x > y as int64
Gt64(x, y) ==
    IF IsNeg64(x) # IsNeg64(y) THEN IsNeg64(y) ELSE UGt64(x, y)

Second == Nat64(1000000000)
FiveMinutes == Mul64(Nat64(300), Second)
\* uint(n) as a shift count: a negative n converts to a count of at least 64
ShiftCount(n) == IF n < 0 \/ n >= 64 THEN 64 ELSE n

\* The delay requeueJobWithDelay computes for a job with this attempt count.
RetryDelay(attempts) ==
    LET delay == Mul64(Pow2x64(ShiftCount(attempts - 1)), Second)
    IN  IF Gt64(delay, FiveMinutes) THEN FiveMinutes ELSE delay

(***************************************************************************)
(* Initial state: an empty broker, the worker process not yet started.     *)
(***************************************************************************)
Ids == {IdTable[i] : i \in 1 .. MaxJobs}
\* The rank of a job id among the ids handed out: a job that got its id
\* earlier has the smaller rank.
Rank(id) == CHOOSE i \in 1 .. Len(IdTable) : IdTable[i] = id
Tickers == 1 .. 2
NoSchedStats == [total |-> 0, recurring |-> 0, one_time |-> 0,
                 type |-> [t \in Types |-> 0]]

\* An empty scheduled set, no ProcessDueJobs call under way.
\* processedCount := 0, and no entry enqueued or skipped yet
NoCount == [processedCount |-> 0, enqueued |-> 0, skipped |-> 0]

InitSched ==
    /\ scheduled_jobs = {}
    /\ scheduled_stats = NoSchedStats
    /\ now = 0
    /\ tpc = [t \in Tickers |-> "idle"]
    /\ tdue = [t \in Tickers |-> <<>>]
    /\ tcount = [t \in Tickers |-> NoCount]
    /\ promoted = [i \in {} |-> 0]
    /\ moved = {}
    /\ oneTime = [i \in {} |-> 0]
    /\ recurring = {}

\* NewPriorityQueue with the default ratio, NewScheduledQueue.
NoDLQStats == [total |-> 0, reprocessed |-> 0, type |-> [t \in Types |-> 0]]
Registrars == 1 .. 2
\* the nil handler, and handlers by name and Type()
NilHandler == [name |-> "nil", type |-> ""]
Handlers ==
    {NilHandler, [name |-> "h1", type |-> "echo"], [name |-> "h2", type |-> "echo"],
     [name |-> "h3", type |-> "flaky"], [name |-> "h4", type |-> ""]}
\* NewRegistry: no handler registered, no Register call under way
InitRegistry ==
    /\ handlers = [t \in {} |-> NilHandler]
    /\ mu = 0
    /\ rpc = [g \in Registrars |-> "idle"]
    /\ rarg = [g \in Registrars |-> NilHandler]
    /\ regLog = <<>>

\* Time is counted in ticks of 1/Scale second and tokens in units of
\* 1/Scale token, so that a rate of R tokens per second refills R units
\* per tick.
Scale == 2
\* time.Now().Add(-24 * time.Hour): a day, in ticks
Day == 24 * 3600 * Scale
\* the job types the limiter is asked about
LimTypes == {"echo", "flaky"}
\* No LocalRateLimiter has been constructed: the program's own processes
\* construct none.
NoLocalLimiter ==
    [built |-> FALSE, defaults |-> 0, defaultBurst |-> 0,
     limits |-> [t \in {} |-> 0], bursts |-> [t \in {} |-> 0],
     lastAllowed |-> [t \in {} |-> 0], tokenBuckets |-> [t \in {} |-> 0]]
\* the goroutines and processes calling RedisRateLimiter.Allow
NCallers == 4
Callers == 1 .. NCallers
NoRedisLimiter == [built |-> FALSE, defaults |-> 0, defaultBurst |-> 0]
NoRead == [type |-> "", newTokens |-> 0, now |-> 0]
InitLimiter ==
    /\ localLimiter = NoLocalLimiter
    /\ clock = 0
    /\ allowLog = <<>>
    /\ redisLimiter = NoRedisLimiter
    /\ rl_limits = [t \in LimTypes |-> [f \in {} |-> 0]]
    /\ rl_tokens = [t \in {} |-> 0]
    /\ apc = [c \in Callers |-> "idle"]
    /\ aread = [c \in Callers |-> NoRead]

\* the goroutines calling PriorityQueue.Dequeue, and those calling
\* RedisDLQ.Reprocess
NConsumers == 2
Consumers == 1 .. NConsumers
NReprocessors == 2
Reprocessors == 1 .. NReprocessors
NoPop == [sel |-> "", key |-> "", data |-> NoData]
NoEntry == [job |-> NoData, error |-> ""]
\* no call under way
InitCalls ==
    /\ cpc = [c \in Consumers |-> "idle"]
    /\ cloc = [c \in Consumers |-> NoPop]
    /\ ppc = [c \in Reprocessors |-> "idle"]
    /\ ploc = [c \in Reprocessors |-> NoEntry]

\* No pool started, no Pool.Stop under way.
InitStop ==
    /\ stopPc = "idle"
    /\ stopElapsed = 0
    /\ fired = FALSE
    /\ aggPc = "none"

\* NewRedisDLQ on a broker without dead letters; NewRegistry
InitMore ==
    /\ dlq_stats = NoDLQStats
    /\ InitRegistry
    /\ InitLimiter
    /\ InitStop
    /\ InitCalls

InitRest ==
    /\ priorityRatio = DefaultRatio
    /\ InitSched
    /\ InitMore

Init ==
    /\ lists = [k \in QueueKeys |-> <<>>]
    /\ queue_stats = NoQueueStats
    /\ priority_counters = [p \in Priorities |-> 0]
    /\ dlq = <<>>
    /\ procUp = FALSE
    /\ cancelled = FALSE
    /\ wpc = [w \in Workers |-> "idle"]
    /\ wjob = [w \in Workers |-> NoJob]
    /\ wstats = [w \in Workers |-> ZeroStats]
    /\ retryTasks = {}
    /\ statTasks = 0
    /\ nextId = 1
    /\ accepted = [i \in {} |-> NoJob]
    /\ track = [i \in {} |-> NoTrack]
    /\ delivered = {}
    /\ lastOp = NoOp
    /\ InitRest

(***************************************************************************)
(* Producers (the server's submit handler, the CLI's submit command): a    *)
(* job made by NewJob, or a job with an empty id, is handed to Enqueue.    *)
(***************************************************************************)
\* a job complete in its fields: non-empty id, type and payload, cap >= 0
WellFormed(j) == j.ID # "" /\ j.Type # "" /\ j.Payload # "" /\ j.MaxRetries >= 0

Accept(j) == (j.ID :> j) @@ accepted

SubmitSimple(j, brokerOk) ==
    LET r == RedisQueueEnqueue(j, brokerOk)
    IN  /\ lists' = r.lists
        /\ queue_stats' = r.stats
        /\ lastOp' = [op |-> "RedisQueue.Enqueue", wellFormed |-> WellFormed(j),
                      broker |-> IF brokerOk THEN "ok" ELSE "down",
                      err |-> r.err, id |-> j.ID, job |-> NoJob]
        /\ IF r.err = ""
           THEN /\ nextId' = nextId + 1
                /\ accepted' = Accept(j)
           ELSE UNCHANGED <<nextId, accepted>>
        /\ UNCHANGED <<priority_counters, dlq, restVars, procVars, track, delivered>>

SubmitPriority(j, brokerOk) ==
    LET r == PriorityQueueEnqueue(j, brokerOk)
    IN  /\ lists' = r.lists
        /\ queue_stats' = r.stats
        /\ lastOp' = [op |-> "PriorityQueue.Enqueue", wellFormed |-> WellFormed(j),
                      broker |-> IF brokerOk THEN "ok" ELSE "down",
                      err |-> r.err, id |-> j.ID, job |-> NoJob]
        /\ IF r.err = ""
           THEN /\ nextId' = nextId + 1
                /\ accepted' = Accept(j)
           ELSE UNCHANGED <<nextId, accepted>>
        /\ UNCHANGED <<priority_counters, dlq, restVars, procVars, track, delivered>>

\* cmd/cli submitJob: the payload must parse as JSON, the job is made by
\* NewJob (no metadata) and handed to RedisQueue.Enqueue.
submitJob(type, payload, maxRetries, brokerOk) ==
    /\ nextId <= MaxJobs
    /\ IF ~ValidJSON(payload)
       THEN /\ lastOp' = [op |-> "submitJob", wellFormed |-> FALSE, broker |-> "ok",
                          err |-> "Invalid JSON payload", id |-> "", job |-> NoJob]
            /\ UNCHANGED <<brokerVars, restVars, procVars, histVars>>
       ELSE SubmitSimple(NewJob(IdTable[nextId], type, payload, maxRetries, Absent),
                         brokerOk)

Producer ==
    \E type \in Types, payload \in Payloads, cap \in Caps, brokerOk \in BOOLEAN :
        submitJob(type, payload, cap, brokerOk)

\* A producer of jobs whose handler fails, with the smallest and the
\* largest cap.
FailingProducer ==
    \E type \in {"flaky", "always_fails"}, cap \in {0, MaxCap}, brokerOk \in BOOLEAN :
        submitJob(type, "{\"x\":1}", cap, brokerOk)

\* Direct callers of the two Enqueue methods; at most MaxJobs jobs pass
\* validation.  The jobs they hand over: ones with a single field at fault
\* (or all of them), and complete ones of every priority value.
FaultyJobs ==
    LET id == IdTable[nextId]
        ok == "{\"x\":1}"
    IN  UNION {{NewJob("", "echo", ok, 0, prio), NewJob(id, "", ok, 0, prio),
                NewJob(id, "echo", "", 0, prio), NewJob(id, "echo", "{x", 0, prio),
                NewJob(id, "echo", ok, 0 - 1, prio), NewJob("", "", "", 0 - 1, prio)} :
               prio \in {Absent, StrVal("high")}}
PlainJobs ==
    {NewJob(IdTable[nextId], "echo", "{\"x\":1}", 0, prio) : prio \in {Absent, StrVal("high")}}
CallerJobs ==
    {NewJob(IdTable[nextId], "echo", payload, cap, prio) :
        payload \in {"{\"x\":1}", "{ \"x\": 1 }"}, cap \in {0, MaxCap}, prio \in PriorityVals}
    \cup FaultyJobs

EnqueueOf(jobs) ==
    \E j \in jobs, brokerOk \in BOOLEAN :
        /\ nextId <= MaxJobs \/ Validate(j) # ""
        /\ SubmitSimple(j, brokerOk)

PriorityEnqueueOf(jobs) ==
    \E j \in jobs, brokerOk \in BOOLEAN :
        /\ nextId <= MaxJobs \/ Validate(j) # ""
        /\ SubmitPriority(j, brokerOk)

EnqueueCall == EnqueueOf(CallerJobs)

PriorityEnqueueCall == PriorityEnqueueOf(CallerJobs)

\* The same callers with few complete jobs.
EnqueueFaulty == EnqueueOf(FaultyJobs \cup PlainJobs)

PriorityEnqueueFaulty == PriorityEnqueueOf(FaultyJobs \cup PlainJobs)

(***************************************************************************)
(* A consumer calling PriorityQueue.Dequeue.  broker: "ok", "down" (the    *)
(* first command fails) or "stats" (the statistics batch after the pop     *)
(* fails).                                                                 *)
(***************************************************************************)
PriorityDequeue(broker) ==
    LET src == DequeueSource(lists, priority_counters)
        pr == PriorityOfKey(src)
    IN  /\ lastOp' = [op |-> "PriorityQueue.Dequeue", wellFormed |-> TRUE,
                      broker |-> broker,
                      err |-> IF broker = "down" THEN "failed to get priority counters"
                              ELSE IF src = "" THEN "failed to dequeue job"
                              ELSE IF broker = "stats" THEN "failed to update dequeue stats"
                              ELSE "",
                      id |-> IF broker = "ok" /\ src # ""
                             THEN Unmarshal(LastOf(lists, src)).ID ELSE "",
                      job |-> IF broker = "ok" /\ src # ""
                              THEN Unmarshal(LastOf(lists, src)) ELSE NoJob]
        /\ IF broker = "down" \/ src = ""
           THEN UNCHANGED <<lists, queue_stats, priority_counters, delivered>>
           ELSE /\ lists' = RPop(lists, src)
                /\ IF broker = "stats"
                   THEN UNCHANGED <<queue_stats, priority_counters, delivered>>
                   ELSE /\ queue_stats' = [queue_stats EXCEPT !.total_dequeued = @ + 1,
                                                              !.dequeued[pr] = @ + 1]
                        /\ priority_counters' = [priority_counters EXCEPT ![pr] = @ + 1]
                        /\ delivered' = delivered \cup {Unmarshal(LastOf(lists, src)).ID}
        /\ UNCHANGED <<dlq, restVars, procVars, nextId, accepted, track>>

PriorityConsumer == \E broker \in {"ok", "down", "stats"} : PriorityDequeue(broker)

(***************************************************************************)
(* cmd/worker and internal/worker: the worker process.  Its pool works on  *)
(* a RedisQueue (the list job_queue).                                      *)
(***************************************************************************)
\* The process ends (an unrecovered panic, or main returning): everything
\* it held in memory is gone.
ProcessEnds ==
    /\ procUp' = FALSE
    /\ cancelled' = FALSE
    /\ wpc' = [w \in Workers |-> "idle"]
    /\ wjob' = [w \in Workers |-> NoJob]
    /\ wstats' = [w \in Workers |-> ZeroStats]
    /\ retryTasks' = {}
    /\ statTasks' = 0

\* main: NewPool and Pool.Start
Start ==
    /\ ~procUp
    /\ procUp' = TRUE
    /\ lastOp' = NoOp
    /\ UNCHANGED <<brokerVars, restVars, cancelled, wpc, wjob, wstats, retryTasks, statTasks,
                   histVars>>

\* Worker.processNextJob up to the return of Dequeue: RedisQueue.Dequeue
\* pops the tail of job_queue and starts the goroutine that counts the pop.
\* With an empty list or an unreachable broker the worker stays idle.
FetchJob(w, brokerOk) ==
    /\ procUp /\ ~cancelled /\ wpc[w] = "idle"
    /\ lastOp' = NoOp
    /\ IF brokerOk /\ Len(lists[jobQueueKey]) > 0
       THEN /\ lists' = RPop(lists, jobQueueKey)
            /\ wjob' = [wjob EXCEPT ![w] = Unmarshal(LastOf(lists, jobQueueKey))]
            /\ wpc' = [wpc EXCEPT ![w] = "holding"]
            /\ statTasks' = statTasks + 1
       ELSE UNCHANGED <<lists, wjob, wpc, statTasks>>
    /\ UNCHANGED <<queue_stats, priority_counters, dlq, restVars, procUp, cancelled, wstats,
                   retryTasks, histVars>>

\* The goroutine of RedisQueue.Dequeue: HINCRBY queue_stats total_dequeued 1
CountDequeue ==
    /\ statTasks > 0
    /\ statTasks' = statTasks - 1
    /\ queue_stats' = [queue_stats EXCEPT !.total_dequeued = @ + 1]
    /\ lastOp' = NoOp
    /\ UNCHANGED <<lists, priority_counters, dlq, restVars, procUp, cancelled, wpc, wjob, wstats,
                   retryTasks, histVars>>

\* Worker.requeueJobWithDelay: the retry goroutine it starts
requeueJobWithDelay(j) == [job |-> j, delay |-> RetryDelay(j.Attempts)]

TrackOf(id) == IF id \in DOMAIN track THEN track[id] ELSE NoTrack
\* the jobs the workers hold, marked abandoned
Abandoned(t) ==
    [id \in DOMAIN t \cup {wjob[w].ID : w \in {v \in Workers : wpc[v] = "holding"}} |->
        IF \E w \in Workers : wpc[w] = "holding" /\ wjob[w].ID = id
        THEN [(IF id \in DOMAIN t THEN t[id] ELSE NoTrack) EXCEPT !.outcome = "abandoned"]
        ELSE t[id]]
Dispatched(j, how) ==
    (j.ID :> [TrackOf(j.ID) EXCEPT !.dispatches = @ + 1, !.attempts = j.Attempts,
                                   !.outcome = how]) @@ track

\* Worker.executeJob on the job the worker holds, and the return to the loop.
executeJob(w) ==
    LET ctx == WithValue({}, startTimeKey)
        j == IncrementAttempts(wjob[w])
        result == Process(ctx, j)
    IN  /\ procUp /\ wpc[w] = "holding"
        /\ lastOp' = NoOp
        /\ CASE result.Status = "panic" ->
                  /\ ProcessEnds
                  /\ track' = (j.ID :> Dispatched(j, "panic")[j.ID]) @@ Abandoned(track)
             [] result.Status = "completed" ->
                  /\ wstats' = [wstats EXCEPT ![w].jobsProcessed = @ + 1]
                  /\ track' = Dispatched(j, "completed")
                  /\ wpc' = [wpc EXCEPT ![w] = "idle"]
                  /\ wjob' = [wjob EXCEPT ![w] = NoJob]
                  /\ UNCHANGED <<procUp, cancelled, retryTasks, statTasks>>
             [] OTHER ->
                  /\ IF ShouldRetry(j)
                     THEN /\ wstats' = [wstats EXCEPT ![w].jobsFailed = @ + 1,
                                                      ![w].jobsRetried = @ + 1]
                          /\ retryTasks' = retryTasks \cup {requeueJobWithDelay(j)}
                          /\ track' = [Dispatched(j, "retrying") EXCEPT
                                         ![j.ID].delays = Append(@, RetryDelay(j.Attempts))]
                     ELSE /\ wstats' = [wstats EXCEPT ![w].jobsFailed = @ + 1]
                          /\ retryTasks' = retryTasks
                          /\ track' = Dispatched(j, "failed")
                  /\ wpc' = [wpc EXCEPT ![w] = "idle"]
                  /\ wjob' = [wjob EXCEPT ![w] = NoJob]
                  /\ UNCHANGED <<procUp, cancelled, statTasks>>
        /\ UNCHANGED <<brokerVars, restVars, nextId, accepted, delivered>>

\* The retry goroutine after its sleep: Enqueue under a fresh context; an
\* error is logged and the job dropped.  (No retry goroutine is ever
\* started, see NoRetryTask, so this is no step of Next.)
retryEnqueue(t, brokerOk) ==
    LET r == RedisQueueEnqueue(t.job, brokerOk)
    IN  /\ procUp /\ t \in retryTasks
        /\ retryTasks' = retryTasks \ {t}
        /\ lists' = r.lists
        /\ queue_stats' = r.stats
        /\ lastOp' = NoOp
        /\ UNCHANGED <<priority_counters, dlq, restVars, procUp, cancelled, wpc, wjob, wstats,
                       statTasks, histVars>>

\* SIGINT or SIGTERM: main calls Pool.Stop, which cancels the pool context
Stop ==
    /\ procUp /\ ~cancelled
    /\ cancelled' = TRUE
    /\ lastOp' = NoOp
    /\ UNCHANGED <<brokerVars, restVars, procUp, wpc, wjob, wstats, retryTasks, statTasks, histVars>>

\* Worker.Start: an idle worker sees the cancelled context and returns
WorkerReturns(w) ==
    /\ procUp /\ cancelled /\ wpc[w] = "idle"
    /\ wpc' = [wpc EXCEPT ![w] = "returned"]
    /\ lastOp' = NoOp
    /\ UNCHANGED <<brokerVars, restVars, procUp, cancelled, wjob, wstats, retryTasks, statTasks,
                   histVars>>

\* Pool.Stop returns (every worker has returned, or the shutdown timeout
\* has passed) and main returns.
Exit ==
    /\ procUp /\ cancelled
    /\ ProcessEnds
    /\ track' = Abandoned(track)
    /\ lastOp' = NoOp
    /\ UNCHANGED <<brokerVars, restVars, nextId, accepted, delivered>>

\* A consumer calling RedisQueue.Dequeue directly.
DequeueCall(brokerOk) ==
    /\ lastOp' = [op |-> "RedisQueue.Dequeue", wellFormed |-> TRUE,
                  broker |-> IF brokerOk THEN "ok" ELSE "down",
                  err |-> IF brokerOk THEN "" ELSE "failed to dequeue job",
                  id |-> IF brokerOk /\ Len(lists[jobQueueKey]) > 0
                         THEN Unmarshal(LastOf(lists, jobQueueKey)).ID ELSE "",
                  job |-> IF brokerOk /\ Len(lists[jobQueueKey]) > 0
                          THEN Unmarshal(LastOf(lists, jobQueueKey)) ELSE NoJob]
    /\ IF brokerOk /\ Len(lists[jobQueueKey]) > 0
       THEN /\ lists' = RPop(lists, jobQueueKey)
            /\ delivered' = delivered \cup {Unmarshal(LastOf(lists, jobQueueKey)).ID}
            /\ statTasks' = statTasks + 1
       ELSE UNCHANGED <<lists, delivered, statTasks>>
    /\ UNCHANGED <<queue_stats, priority_counters, dlq, restVars, procUp, cancelled, wpc, wjob,
                   wstats, retryTasks, nextId, accepted, track>>

Consumer == \E brokerOk \in BOOLEAN : DequeueCall(brokerOk)

\* The worker process and the producers that feed it.
Next ==
    \/ Producer
    \/ Start
    \/ \E w \in Workers, brokerOk \in BOOLEAN : FetchJob(w, brokerOk)
    \/ CountDequeue
    \/ \E w \in Workers : executeJob(w)
    \/ Stop
    \/ \E w \in Workers : WorkerReturns(w)
    \/ Exit

Spec == Init /\ [][Next]_vars

\* The worker process fed with failing jobs only.
NextFailing ==
    \/ FailingProducer
    \/ Start
    \/ \E w \in Workers, brokerOk \in BOOLEAN : FetchJob(w, brokerOk)
    \/ CountDequeue
    \/ \E w \in Workers : executeJob(w)
    \/ Stop
    \/ \E w \in Workers : WorkerReturns(w)
    \/ Exit

SpecFailing == Init /\ [][NextFailing]_vars

\* The worker process fed with jobs of a type no handler is registered for.
UnknownProducer ==
    \E cap \in {0, MaxCap}, brokerOk \in BOOLEAN :
        submitJob("unknown", "{\"x\":1}", cap, brokerOk)

NextUnknown ==
    \/ UnknownProducer
    \/ Start
    \/ \E w \in Workers, brokerOk \in BOOLEAN : FetchJob(w, brokerOk)
    \/ CountDequeue
    \/ \E w \in Workers : executeJob(w)
    \/ Stop
    \/ \E w \in Workers : WorkerReturns(w)
    \/ Exit

SpecUnknown == Init /\ [][NextUnknown]_vars

\* The two queues under direct calls of Enqueue and Dequeue.
NextQueue ==
    \/ EnqueueCall
    \/ PriorityEnqueueCall
    \/ Consumer
    \/ PriorityConsumer
    \/ CountDequeue

SpecQueue == Init /\ [][NextQueue]_vars

\* The two queues under callers that mostly hand over jobs at fault.
NextValidation ==
    \/ EnqueueFaulty
    \/ PriorityEnqueueFaulty
    \/ Consumer
    \/ PriorityConsumer
    \/ CountDequeue

SpecValidation == Init /\ [][NextValidation]_vars

(***************************************************************************)
(* A PriorityQueue on its own: producers of complete jobs of the three     *)
(* priorities and a consumer whose calls either find the broker reachable  *)
(* for the whole call or not at all.                                       *)
(***************************************************************************)
PriorityJobs ==
    {NewJob(IdTable[nextId], "echo", "{\"x\":1}", cap, prio) :
        cap \in {0, MaxCap}, prio \in {Absent, StrVal(PriorityHigh), StrVal(PriorityLow)}}

PriorityEnqueuePlain == PriorityEnqueueOf(PriorityJobs)

PlainDequeue == \E broker \in {"ok", "down"} : PriorityDequeue(broker)

NextPriority ==
    \/ PriorityEnqueuePlain
    \/ PlainDequeue

SpecPriority == Init /\ [][NextPriority]_vars

\* The consumer keeps calling Dequeue, and the broker is reachable for a
\* call again and again.
FairSpecPriority == SpecPriority /\ WF_vars(PriorityDequeue("ok"))

(***************************************************************************)
(* A consumer that puts the job Dequeue returned back with Enqueue, no     *)
(* handler in between (at most MaxRequeues times).                         *)
(***************************************************************************)
MaxRequeues == 2

RoundTripJobs ==
    {NewJob(IdTable[nextId], "echo", payload, cap, prio) :
        payload \in {"{\"x\":1}", "{ \"x\": 1 }"}, cap \in {0, MaxCap},
        prio \in {Absent, StrVal(PriorityHigh)}}

RoundTripEnqueue == PriorityEnqueueOf(RoundTripJobs)

Reenqueue ==
    \E brokerOk \in BOOLEAN :
        /\ lastOp.op = "PriorityQueue.Dequeue"
        /\ lastOp.job # NoJob
        /\ queue_stats.total_enqueued < MaxJobs + MaxRequeues
        /\ LET r == PriorityQueueEnqueue(lastOp.job, brokerOk)
           IN  /\ lists' = r.lists
               /\ queue_stats' = r.stats
               /\ lastOp' = [op |-> "PriorityQueue.Enqueue",
                             wellFormed |-> WellFormed(lastOp.job),
                             broker |-> IF brokerOk THEN "ok" ELSE "down",
                             err |-> r.err, id |-> lastOp.id, job |-> NoJob]
        /\ UNCHANGED <<priority_counters, dlq, restVars, procVars, histVars>>

NextRoundTrip ==
    \/ RoundTripEnqueue
    \/ PlainDequeue
    \/ Reenqueue

SpecRoundTrip == Init /\ [][NextRoundTrip]_vars

(***************************************************************************)
(* internal/queue/scheduled.go: ScheduledQueue over a RedisQueue.  Time is *)
(* counted in minutes.  ProcessDueJobs is run by two tickers (a ticker     *)
(* that fires again, or two processes over the same broker); it is a       *)
(* sequence of broker commands, each a step of its own.                    *)
(***************************************************************************)
MaxTime == 1
\* ProcessDueJobs is called while the main queue holds fewer jobs than this
MaxPromotions == 3
\* simpleCronSchedule.Next: one minute later
CronStep == 1
CronExprs == {"* * * * *"}

\* json.Marshal(scheduledJob) and json.Unmarshal of it
MarshalScheduled(sj) ==
    [job |-> Marshal(sj.Job)[1], execute_at |-> sj.ExecuteAt,
     recurring |-> sj.Recurring, cron_expression |-> sj.CronExpression]
UnmarshalScheduled(m) ==
    [Job |-> Unmarshal(m.job), ExecuteAt |-> m.execute_at,
     Recurring |-> m.recurring, CronExpression |-> m.cron_expression]

\* ZADD key score member, ZREM key member, ZRANGEBYSCORE key 0 max
ZAdd(set, score, member) ==
    {e \in set : e.member # member} \cup {[member |-> member, score |-> score]}
ZRem(set, member) == {e \in set : e.member # member}
ZRangeByScore(set, max) == {e \in set : e.score <= max}
\* the order of a sorted set: by score, members of one score by their bytes
\* (which start with the job id)
ZBefore(e, f) ==
    \/ e.score < f.score
    \/ e.score = f.score /\ Rank(e.member.job.id) <= Rank(f.member.job.id)
RECURSIVE ZOrder(_)
ZOrder(set) ==
    IF set = {} THEN <<>>
    ELSE LET first == CHOOSE e \in set : \A f \in set : ZBefore(e, f)
         IN  <<first.member>> \o ZOrder(set \ {first})

\* addScheduledJob(scheduledJob): the error ("" for nil), the sorted set and
\* the statistics after it.  broker: "ok", "down" (ZADD fails) or "stats"
\* (the statistics batch after ZADD fails).
addScheduledJob(sj, broker) ==
    IF ~Marshal(sj.Job)[2]
    THEN [err |-> "failed to marshal scheduled job", set |-> scheduled_jobs,
          stats |-> scheduled_stats]
    ELSE IF broker = "down"
    THEN [err |-> "failed to schedule job", set |-> scheduled_jobs,
          stats |-> scheduled_stats]
    ELSE IF broker = "stats"
    THEN [err |-> "failed to update scheduled job stats",
          set |-> ZAdd(scheduled_jobs, sj.ExecuteAt, MarshalScheduled(sj)),
          stats |-> scheduled_stats]
    ELSE [err |-> "",
          set |-> ZAdd(scheduled_jobs, sj.ExecuteAt, MarshalScheduled(sj)),
          stats |-> [scheduled_stats EXCEPT
                        !.total = @ + 1,
                        !.recurring = IF sj.Recurring THEN @ + 1 ELSE @,
                        !.one_time = IF sj.Recurring THEN @ ELSE @ + 1,
                        !.type[sj.Job.Type] = @ + 1]]

\* Schedule and ScheduleRecurring, by the wrapper they build
ScheduleWrapped(op, sj, broker) ==
    LET j == sj.Job
        r == addScheduledJob(sj, broker)
        err == IF Validate(j) # "" THEN "job validation failed" ELSE r.err
        added == Validate(j) = "" /\ r.set # scheduled_jobs
    IN  /\ lastOp' = [op |-> op, wellFormed |-> WellFormed(j), broker |-> broker,
                      err |-> err, id |-> j.ID, job |-> NoJob]
        /\ IF Validate(j) # ""
           THEN UNCHANGED <<scheduled_jobs, scheduled_stats>>
           ELSE /\ scheduled_jobs' = r.set
                /\ scheduled_stats' = r.stats
        /\ nextId' = IF added THEN nextId + 1 ELSE nextId
        /\ oneTime' = IF err = "" /\ ~sj.Recurring
                      THEN (j.ID :> sj.ExecuteAt) @@ oneTime ELSE oneTime
        /\ recurring' = IF err = "" /\ sj.Recurring
                        THEN recurring \cup {sj.CronExpression} ELSE recurring
        /\ UNCHANGED <<brokerVars, priorityRatio, moreVars, now, tpc, tdue, tcount, promoted, moved,
                       procVars, accepted, track, delivered>>

\* the jobs the callers hand over: a complete one and one without a type
ScheduleJobs ==
    {NewJob(IdTable[nextId], type, "{\"x\":1}", 0, Absent) : type \in {"echo", ""}}

Schedule ==
    /\ nextId <= MaxJobs
    /\ \E j \in ScheduleJobs, executeAt \in 0 .. MaxTime, broker \in {"ok", "down", "stats"} :
        ScheduleWrapped("ScheduledQueue.Schedule",
                           [Job |-> j, ExecuteAt |-> executeAt, Recurring |-> FALSE,
                            CronExpression |-> ""], broker)

ScheduleRecurring ==
    /\ nextId <= MaxJobs
    /\ \E j \in ScheduleJobs, cronExpr \in CronExprs, broker \in {"ok", "down", "stats"} :
        ScheduleWrapped("ScheduledQueue.ScheduleRecurring",
                           [Job |-> j, ExecuteAt |-> now + CronStep, Recurring |-> TRUE,
                            CronExpression |-> cronExpr], broker)

\* the clock
Advance ==
    /\ now < MaxTime
    /\ now' = now + 1
    /\ UNCHANGED <<brokerVars, priorityRatio, moreVars, scheduled_jobs, scheduled_stats, tpc, tdue, tcount,
                   promoted, moved, oneTime, recurring, procVars, histVars, lastOp>>

\* The occurrences the calls under way and a call reading due may still
\* add (each takes a fresh id), and the entries they may still enqueue.
RecurringIn(ms) == Cardinality({i \in 1 .. Len(ms) : ms[i].recurring})
RECURSIVE SumPending(_)
SumPending(ts) ==
    IF ts = {} THEN 0
    ELSE LET t == CHOOSE x \in ts : TRUE
         IN  RecurringIn(tdue[t]) + SumPending(ts \ {t})
RECURSIVE SumDue(_)
SumDue(ts) ==
    IF ts = {} THEN 0
    ELSE LET t == CHOOSE x \in ts : TRUE
         IN  Len(tdue[t]) + SumDue(ts \ {t})
\* a loop that ends at the first entry
AfterEntryReturn(t) == "idle"
\* the loop of ProcessDueJobs after an entry: the next one, or the return
AfterEntry(t) == IF Len(tdue[t]) > 1 THEN "enqueue" ELSE "idle"

\* ProcessDueJobs, first command: read the due entries.
TickRead(t, brokerOk) ==
    LET due == ZOrder(ZRangeByScore(scheduled_jobs, now))
        from == IF nextId > MaxJobs THEN nextId ELSE MaxJobs + 1
    IN  /\ tpc[t] = "idle"
        /\ from + SumPending(Tickers) + RecurringIn(due) <= Len(IdTable) + 1
        /\ Len(lists[jobQueueKey]) + SumDue(Tickers) + Len(due) <= MaxPromotions
        /\ lastOp' = [op |-> "ScheduledQueue.ProcessDueJobs", wellFormed |-> TRUE,
                      broker |-> IF brokerOk THEN "ok" ELSE "down",
                      err |-> IF brokerOk THEN "" ELSE "failed to get due jobs",
                      id |-> "", job |-> NoJob]
        /\ IF brokerOk /\ due # <<>>
           THEN /\ tdue' = [tdue EXCEPT ![t] = due]
                /\ tpc' = [tpc EXCEPT ![t] = "enqueue"]
           ELSE UNCHANGED <<tdue, tpc>>
        /\ tcount' = [tcount EXCEPT ![t] = NoCount]
        /\ UNCHANGED <<brokerVars, priorityRatio, moreVars, scheduled_jobs, scheduled_stats, now,
                       promoted, moved, oneTime, recurring, procVars, histVars>>

\* The entry at hand is handed to the main queue's Enqueue; on an error
\* the loop goes on with the next entry.
TickEnqueue(t, brokerOk) ==
    LET sj == UnmarshalScheduled(Head(tdue[t]))
        r == RedisQueueEnqueue(sj.Job, brokerOk)
    IN  /\ tpc[t] = "enqueue"
        /\ lists' = r.lists
        /\ queue_stats' = r.stats
        /\ IF r.err = ""
           THEN /\ tpc' = [tpc EXCEPT ![t] = "remove"]
                /\ promoted' = (sj.Job.ID :>
                                   (IF sj.Job.ID \in DOMAIN promoted
                                    THEN promoted[sj.Job.ID] ELSE 0) + 1) @@ promoted
                /\ accepted' = Accept(sj.Job)
                /\ tcount' = [tcount EXCEPT ![t].enqueued = @ + 1]
                /\ UNCHANGED tdue
           ELSE /\ tpc' = [tpc EXCEPT ![t] = AfterEntry(t)]
                /\ tdue' = [tdue EXCEPT ![t] = Tail(@)]
                /\ tcount' = [tcount EXCEPT ![t].skipped = @ + 1]
                /\ UNCHANGED <<promoted, accepted>>
        /\ UNCHANGED <<priority_counters, dlq, priorityRatio, moreVars, scheduled_jobs,
                       scheduled_stats, now, moved, oneTime, recurring, procVars, nextId,
                       track, delivered, lastOp>>

\* ZREM of the entry, its result ignored; a one-time entry is then counted
\* down in the statistics (result ignored) and the loop goes on.
TickRemove(t, remOk, statOk) ==
    LET m == Head(tdue[t])
    IN  /\ tpc[t] = "remove"
        /\ scheduled_jobs' = IF remOk THEN ZRem(scheduled_jobs, m) ELSE scheduled_jobs
        /\ IF m.recurring
           THEN /\ statOk
                /\ tpc' = [tpc EXCEPT ![t] = "next"]
                /\ UNCHANGED <<tdue, tcount, scheduled_stats, moved>>
           ELSE /\ scheduled_stats' = IF statOk
                                      THEN [scheduled_stats EXCEPT !.one_time = @ - 1]
                                      ELSE scheduled_stats
                /\ moved' = moved \cup {m.job.id}
                /\ tpc' = [tpc EXCEPT ![t] = AfterEntry(t)]
                /\ tdue' = [tdue EXCEPT ![t] = Tail(@)]
                /\ tcount' = [tcount EXCEPT ![t].processedCount = @ + 1]
        /\ UNCHANGED <<brokerVars, priorityRatio, moreVars, now, promoted, oneTime, recurring,
                       procVars, histVars, lastOp>>

\* a next occurrence that keeps the id of the job just promoted
NextOccurrenceSameId(sj, id, time) ==
    [Job |-> [sj.Job EXCEPT !.Attempts = 0], ExecuteAt |-> time + CronStep,
     Recurring |-> TRUE, CronExpression |-> sj.CronExpression]
\* The next occurrence of a recurring entry: a copy of the job with a new
\* id and no attempts, one cron step from the time given.
NextOccurrence(sj, id, time) ==
    [Job |-> [sj.Job EXCEPT !.ID = id, !.Attempts = 0], ExecuteAt |-> time + CronStep,
     Recurring |-> TRUE, CronExpression |-> sj.CronExpression]

\* The next occurrence is added; the result of addScheduledJob is ignored.
TickNext(t, broker) ==
    LET sj == UnmarshalScheduled(Head(tdue[t]))
        r == addScheduledJob(NextOccurrence(sj, IdTable[nextId], now), broker)
    IN  /\ tpc[t] = "next"
        /\ scheduled_jobs' = r.set
        /\ scheduled_stats' = r.stats
        /\ nextId' = nextId + 1
        /\ moved' = moved \cup {sj.Job.ID}
        /\ tpc' = [tpc EXCEPT ![t] = AfterEntry(t)]
        /\ tdue' = [tdue EXCEPT ![t] = Tail(@)]
        /\ tcount' = [tcount EXCEPT ![t].processedCount = @ + 1]
        /\ UNCHANGED <<brokerVars, priorityRatio, moreVars, now, promoted, oneTime, recurring,
                       procVars, accepted, track, delivered, lastOp>>

NextScheduled ==
    \/ Schedule
    \/ ScheduleRecurring
    \/ Advance
    \/ \E t \in Tickers, brokerOk \in BOOLEAN : TickRead(t, brokerOk)
    \/ \E t \in Tickers, brokerOk \in BOOLEAN : TickEnqueue(t, brokerOk)
    \/ \E t \in Tickers, remOk \in BOOLEAN, statOk \in BOOLEAN : TickRemove(t, remOk, statOk)
    \/ \E t \in Tickers, broker \in {"ok", "down", "stats"} : TickNext(t, broker)

SpecScheduled == Init /\ [][NextScheduled]_vars

\* The scheduled queue when only the main queue's Enqueue may fail.
ScheduleOk ==
    /\ nextId <= MaxJobs
    /\ \E executeAt \in 0 .. MaxTime :
        ScheduleWrapped("ScheduledQueue.Schedule",
                        [Job |-> NewJob(IdTable[nextId], "echo", "{\"x\":1}", 0, Absent),
                         ExecuteAt |-> executeAt, Recurring |-> FALSE,
                         CronExpression |-> ""], "ok")

ScheduleRecurringOk ==
    /\ nextId <= MaxJobs
    /\ \E cronExpr \in CronExprs :
        ScheduleWrapped("ScheduledQueue.ScheduleRecurring",
                        [Job |-> NewJob(IdTable[nextId], "echo", "{\"x\":1}", 0, Absent),
                         ExecuteAt |-> now + CronStep, Recurring |-> TRUE,
                         CronExpression |-> cronExpr], "ok")

NextTicks ==
    \/ ScheduleOk
    \/ ScheduleRecurringOk
    \/ Advance
    \/ \E t \in Tickers : TickRead(t, TRUE)
    \/ \E t \in Tickers, brokerOk \in BOOLEAN : TickEnqueue(t, brokerOk)
    \/ \E t \in Tickers : TickRemove(t, TRUE, TRUE)
    \/ \E t \in Tickers : TickNext(t, "ok")

SpecTicks == Init /\ [][NextTicks]_vars

\* The scheduled queue with recurring schedules only.
NextRecurring ==
    \/ ScheduleRecurring
    \/ Advance
    \/ \E t \in Tickers, brokerOk \in BOOLEAN : TickRead(t, brokerOk)
    \/ \E t \in Tickers, brokerOk \in BOOLEAN : TickEnqueue(t, brokerOk)
    \/ \E t \in Tickers, remOk \in BOOLEAN, statOk \in BOOLEAN : TickRemove(t, remOk, statOk)
    \/ \E t \in Tickers, broker \in {"ok", "down", "stats"} : TickNext(t, broker)

SpecRecurring == Init /\ [][NextRecurring]_vars

(***************************************************************************)
(* internal/queue/dlq.go: RedisDLQ over a RedisQueue, under direct calls   *)
(* of Send and Reprocess.                                                  *)
(***************************************************************************)
\* json.Marshal(failedInfo): <<data, ok>>
MarshalFailed(j, errorMsg) ==
    <<[job |-> Marshal(j)[1], error |-> errorMsg], Marshal(j)[2]>>

\* RedisDLQ.Send(job, errorMsg)
Send(j, errorMsg, brokerOk) ==
    LET data == MarshalFailed(j, errorMsg)
        done == data[2] /\ brokerOk
    IN  /\ lastOp' = [op |-> "RedisDLQ.Send", wellFormed |-> WellFormed(j),
                      broker |-> IF brokerOk THEN "ok" ELSE "down",
                      err |-> IF ~data[2] THEN "failed to marshal failed job info"
                              ELSE IF ~brokerOk THEN "failed to send job to DLQ"
                              ELSE "",
                      id |-> j.ID, job |-> NoJob]
        /\ dlq' = IF done THEN <<data[1]>> \o dlq ELSE dlq
        /\ dlq_stats' = IF done
                        THEN [dlq_stats EXCEPT !.total = @ + 1, !.type[j.Type] = @ + 1]
                        ELSE dlq_stats
        /\ nextId' = IF done THEN nextId + 1 ELSE nextId
        /\ UNCHANGED <<lists, queue_stats, priority_counters, priorityRatio, schedVars,
                       regVars, limVars, stopVars, callVars, procVars, accepted, track, delivered>>

\* the jobs a caller gives up on: their tries are used up
DeadJobs ==
    {[NewJob(IdTable[nextId], type, "{\"x\":1}", MaxCap, Absent) EXCEPT !.Attempts = MaxCap] :
        type \in {"flaky", "always_fails"}}

SendCall ==
    /\ nextId <= MaxJobs
    /\ \E j \in DeadJobs, brokerOk \in BOOLEAN : Send(j, "E", brokerOk)

\* the first entry of the list whatever its id, 0 when the list is empty
FirstOfAny(l, jobID) == IF Len(l) > 0 THEN 1 ELSE 0
\* the first entry of the list whose job has the id, 0 when there is none
FirstWithId(l, jobID) ==
    IF \E i \in 1 .. Len(l) : l[i].job.id = jobID
    THEN CHOOSE i \in 1 .. Len(l) :
            l[i].job.id = jobID /\ \A k \in 1 .. i - 1 : l[k].job.id # jobID
    ELSE 0
\* an LREM that removes nothing
LRemNone(l, item) == l
\* LREM key 1 item: the first element equal to item goes
LRem(l, item) ==
    IF \E i \in 1 .. Len(l) : l[i] = item
    THEN LET i == CHOOSE k \in 1 .. Len(l) : l[k] = item /\ \A m \in 1 .. k - 1 : l[m] # item
         IN  SubSeq(l, 1, i - 1) \o SubSeq(l, i + 1, Len(l))
    ELSE l

\* RedisDLQ.Reprocess(jobID).  broker: "ok", "down" (LRANGE fails), "lrem"
\* (LREM fails; its result is ignored), "enqueue" (the main queue's
\* Enqueue fails) or "stats" (the last statistics batch fails).
Reprocess(jobID, broker) ==
    LET i == FirstWithId(dlq, jobID)
        found == broker # "down" /\ i > 0
        j == [Unmarshal(dlq[i].job) EXCEPT !.Attempts = 0]
        r == RedisQueueEnqueue(j, broker # "enqueue")
    IN  /\ lastOp' = [op |-> "RedisDLQ.Reprocess", wellFormed |-> TRUE, broker |-> broker,
                      err |-> IF broker = "down" THEN "failed to list DLQ jobs"
                              ELSE IF ~found THEN "job not found in DLQ"
                              ELSE IF r.err # "" THEN "failed to requeue job"
                              ELSE IF broker = "stats" THEN "failed to update DLQ stats"
                              ELSE "",
                      id |-> jobID, job |-> NoJob]
        /\ IF ~found
           THEN UNCHANGED <<dlq, lists, queue_stats, dlq_stats>>
           ELSE /\ dlq' = IF broker = "lrem" THEN dlq ELSE LRem(dlq, dlq[i])
                /\ lists' = r.lists
                /\ queue_stats' = r.stats
                /\ dlq_stats' = IF r.err = "" /\ broker # "stats"
                                THEN [dlq_stats EXCEPT !.total = @ - 1,
                                                       !.type[j.Type] = @ - 1,
                                                       !.reprocessed = @ + 1]
                                ELSE dlq_stats
        /\ UNCHANGED <<priority_counters, priorityRatio, schedVars, regVars, limVars, stopVars, callVars,
                       procVars,
                       histVars>>

ReprocessCall ==
    /\ Len(lists[jobQueueKey]) <= MaxRequeues
    /\ \E jobID \in Ids, broker \in {"ok", "down", "lrem", "enqueue", "stats"} :
          Reprocess(jobID, broker)

NextDLQ ==
    \/ SendCall
    \/ ReprocessCall

SpecDLQ == Init /\ [][NextDLQ]_vars

\* Send of a dead job with the broker up
ReprocessorSend ==
    /\ nextId <= MaxJobs
    /\ \E j \in DeadJobs : Send(j, "E", TRUE)

\* Send and Reprocess called one after the other with the broker up; a
\* reprocessed job is dequeued, and may be given up on again.
SendAgain ==
    /\ Len(lists[jobQueueKey]) > 0
    /\ Len(dlq) < MaxJobs
    /\ LET j == Unmarshal(LastOf(lists, jobQueueKey))
           data == MarshalFailed([j EXCEPT !.Attempts = j.MaxRetries], "E")
       IN  /\ lists' = RPop(lists, jobQueueKey)
           /\ dlq' = <<data[1]>> \o dlq
           /\ dlq_stats' = [dlq_stats EXCEPT !.total = @ + 1, !.type[j.Type] = @ + 1]
           /\ lastOp' = [op |-> "RedisDLQ.Send", wellFormed |-> TRUE, broker |-> "ok",
                         err |-> "", id |-> j.ID, job |-> NoJob]
    /\ UNCHANGED <<queue_stats, priority_counters, priorityRatio, schedVars, regVars, limVars,
                   stopVars, callVars, procVars, histVars>>

ReprocessOk ==
    /\ dlq_stats.reprocessed < MaxRequeues
    /\ \E jobID \in Ids : Reprocess(jobID, "ok")

NextDLQOk ==
    \/ ReprocessorSend
    \/ SendAgain
    \/ ReprocessOk
    \/ Consumer
    \/ CountDequeue

SpecDLQOk == Init /\ [][NextDLQOk]_vars

(***************************************************************************)
(* internal/job/registry.go: Registry.Register called by goroutines, at    *)
(* most MaxRegs calls in all.  The map is read and written under mu.       *)
(***************************************************************************)
MaxRegs == 3

\* the map after Register's check and insert, and the error ("" for nil):
\* this variant replaces the handler of a type that is registered
InsertOverwrite(hs, h) ==
    [err |-> "", map |-> [t \in DOMAIN hs \cup {h.type} |-> IF t = h.type THEN h ELSE hs[t]]]
\* the map after Register's check and insert, and the error ("" for nil)
Insert(hs, h) ==
    IF h.type \in DOMAIN hs
    THEN [err |-> "handler already exists", map |-> hs]
    ELSE [err |-> "",
          map |-> [t \in DOMAIN hs \cup {h.type} |-> IF t = h.type THEN h ELSE hs[t]]]

\* Registry.Get(jobType): the handler and the error
Get(jobType) ==
    IF jobType \in DOMAIN handlers
    THEN [handler |-> handlers[jobType], err |-> ""]
    ELSE [handler |-> NilHandler, err |-> "no handler registered"]

InFlight == Cardinality({g \in Registrars : rpc[g] # "idle"})

\* Register up to the mutex: a nil handler and an empty type are refused
RegisterCall(g, h) ==
    /\ rpc[g] = "idle"
    /\ Len(regLog) + InFlight < MaxRegs
    /\ IF h = NilHandler \/ h.type = ""
       THEN /\ regLog' = Append(regLog,
                    [handler |-> h,
                     err |-> IF h = NilHandler THEN "handler cannot be nil"
                             ELSE "handler type cannot be empty"])
            /\ UNCHANGED <<rpc, rarg>>
       ELSE /\ rpc' = [rpc EXCEPT ![g] = "lock"]
            /\ rarg' = [rarg EXCEPT ![g] = h]
            /\ UNCHANGED regLog
    /\ UNCHANGED <<handlers, mu, dlq_stats, limVars, stopVars, callVars, brokerVars, priorityRatio, schedVars, procVars,
                   histVars, lastOp>>

\* r.mu.Lock()
RegisterLock(g) ==
    /\ rpc[g] = "lock"
    /\ mu = 0
    /\ mu' = g
    /\ rpc' = [rpc EXCEPT ![g] = "held"]
    /\ UNCHANGED <<handlers, rarg, regLog, dlq_stats, limVars, stopVars, callVars, brokerVars, priorityRatio, schedVars,
                   procVars, histVars, lastOp>>

\* the check and the insert under the mutex, and the deferred Unlock
RegisterInsert(g) ==
    LET r == Insert(handlers, rarg[g])
    IN  /\ rpc[g] = "held"
        /\ handlers' = r.map
        /\ regLog' = Append(regLog, [handler |-> rarg[g], err |-> r.err])
        /\ mu' = 0
        /\ rpc' = [rpc EXCEPT ![g] = "idle"]
        /\ rarg' = [rarg EXCEPT ![g] = NilHandler]
        /\ UNCHANGED <<dlq_stats, limVars, stopVars, callVars, brokerVars, priorityRatio, schedVars, procVars,
                       histVars, lastOp>>

NextRegistry ==
    \/ \E g \in Registrars, h \in Handlers : RegisterCall(g, h)
    \/ \E g \in Registrars : RegisterLock(g)
    \/ \E g \in Registrars : RegisterInsert(g)

SpecRegistry == Init /\ [][NextRegistry]_vars

(***************************************************************************)
(* The LocalRateLimiter: a token bucket per job type, under one mutex.     *)
(***************************************************************************)
MaxRate == 2
MaxBurst == 2
MaxClock == 3
MaxCalls == 4
Rates == 0 .. MaxRate
Bursts == 0 .. MaxBurst

\* NewLocalRateLimiter(defaultLimit, defaultBurst)
NewLocalRateLimiter(defaultLimit, burst) ==
    [built |-> TRUE, defaults |-> defaultLimit, defaultBurst |-> burst,
     limits |-> [t \in {} |-> 0], bursts |-> [t \in {} |-> 0],
     lastAllowed |-> [t \in {} |-> 0], tokenBuckets |-> [t \in {} |-> 0]]

\* m[k] of a Go map with the value to use when the key is absent
Lookup(m, k, default) == IF k \in DOMAIN m THEN m[k] ELSE default
Store(m, k, v) == (k :> v) @@ m

\* if newTokens > float64(burst) { newTokens = float64(burst) }
CapNone(newTokens, burst) == newTokens
Cap(newTokens, burst) == IF newTokens > burst * Scale THEN burst * Scale ELSE newTokens

\* LocalRateLimiter.Allow(ctx, jobType) at time t: the answer and the
\* limiter after the call.  The first call for a type stores the defaults,
\* whatever the answer.
LocalRateLimiterAllow(l, jobType, t) ==
    LET limit == Lookup(l.limits, jobType, l.defaults)
        burst == Lookup(l.bursts, jobType, l.defaultBurst)
        lastTime == Lookup(l.lastAllowed, jobType, t - Day)
        tokens == Lookup(l.tokenBuckets, jobType, burst * Scale)
        stored == [l EXCEPT !.limits = Store(@, jobType, limit),
                            !.bursts = Store(@, jobType, burst),
                            !.lastAllowed = Store(@, jobType, lastTime),
                            !.tokenBuckets = Store(@, jobType, tokens)]
        elapsed == t - lastTime
        refill == elapsed * limit
        newTokens == Cap(tokens + refill, burst)
    IN  IF newTokens < Scale
        THEN [ok |-> FALSE, l |-> stored]
        ELSE [ok |-> TRUE,
              l |-> [stored EXCEPT !.tokenBuckets[jobType] = newTokens - Scale,
                                   !.lastAllowed[jobType] = t]]

limiterRest == <<brokerVars, procVars, histVars, lastOp, priorityRatio, schedVars,
                 dlq_stats, regVars, stopVars, callVars>>

\* a process constructs the limiter
NewLocalCall ==
    /\ ~localLimiter.built
    /\ \E r \in Rates, b \in Bursts : localLimiter' = NewLocalRateLimiter(r, b)
    /\ UNCHANGED <<clock, allowLog, redisVars, limiterRest>>

\* time passes
ClockTick ==
    /\ clock < MaxClock
    /\ clock' = clock + 1
    /\ UNCHANGED <<localLimiter, allowLog, redisVars, limiterRest>>

\* a goroutine calls Allow; the mutex makes the call one step
LocalAllowCall(jobType) ==
    LET r == LocalRateLimiterAllow(localLimiter, jobType, clock)
    IN  /\ localLimiter.built
        /\ Len(allowLog) < MaxCalls
        /\ localLimiter' = r.l
        /\ allowLog' = Append(allowLog, [type |-> jobType, time |-> clock, ok |-> r.ok])
        /\ UNCHANGED <<clock, redisVars, limiterRest>>

NextLocal ==
    \/ NewLocalCall
    \/ ClockTick
    \/ \E jobType \in LimTypes : LocalAllowCall(jobType)

SpecLocal == Init /\ [][NextLocal]_vars

\* LocalRateLimiter.SetLimit(ctx, jobType, limit, burst): the two maps are
\* written under the mutex; the bucket and its time stamp are not touched.
LocalRateLimiterSetLimit(l, jobType, limit, burst) ==
    [l EXCEPT !.limits = Store(@, jobType, limit), !.bursts = Store(@, jobType, burst)]

LocalSetLimitCall(jobType) ==
    /\ localLimiter.built
    /\ \E r \in Rates, b \in Bursts :
          localLimiter' = LocalRateLimiterSetLimit(localLimiter, jobType, r, b)
    /\ UNCHANGED <<clock, allowLog, redisVars, limiterRest>>

\* The local limiter whose limits for one type are changed while it is in use.
NextSetLimit ==
    \/ NewLocalCall
    \/ ClockTick
    \/ LocalAllowCall("echo")
    \/ LocalSetLimitCall("echo")

SpecSetLimit == Init /\ [][NextSetLimit]_vars

(***************************************************************************)
(* The RedisRateLimiter: the bucket lives in the broker, and Allow reads   *)
(* it with one pipeline and writes it with another.                        *)
(***************************************************************************)
\* NewRedisRateLimiter(client, prefix, defaultLimit, defaultBurst)
NewRedisRateLimiter(defaultLimit, burst) ==
    [built |-> TRUE, defaults |-> defaultLimit, defaultBurst |-> burst]

\* now.Format(time.RFC3339) read back with time.Parse: the whole seconds
RFC3339(t) == (t \div Scale) * Scale
\* fmt.Sprintf("%.6f", newTokens) read back with strconv.ParseFloat
Fixed6(units) == (((units * 1000000) \div Scale) * Scale) \div 1000000

\* the first pipeline of Allow and the computation up to the test of
\* newTokens, at time t
RedisRefill(r, hash, tokensMap, jobType, t) ==
    LET limit == Lookup(hash, "limit", r.defaults)
        burst == Lookup(hash, "burst", r.defaultBurst)
        lastUpdated == Lookup(hash, "last_updated", t - Day)
        currentTokens == Lookup(tokensMap, jobType, burst * Scale)
        elapsed == t - lastUpdated
        refill == elapsed * limit
    IN  Cap(currentTokens + refill, burst)

callersRest == <<localLimiter, limiterRest>>

\* the processes construct their limiter, all from one configuration
NewRedisCall ==
    /\ ~redisLimiter.built
    /\ \E r \in Rates, b \in Bursts : redisLimiter' = NewRedisRateLimiter(r, b)
    /\ UNCHANGED <<clock, allowLog, rl_limits, rl_tokens, apc, aread, callersRest>>

MaxRedisClock == 1
RedisClockTick ==
    /\ clock < MaxRedisClock
    /\ clock' = clock + 1
    /\ UNCHANGED <<allowLog, redisVars, callersRest>>

InFlightCalls == {c \in Callers : apc[c] # "idle"}

\* Allow up to "if newTokens < 1": a denied call returns here
AllowRead(c, jobType) ==
    LET newTokens == RedisRefill(redisLimiter, rl_limits[jobType], rl_tokens, jobType, clock)
    IN  /\ redisLimiter.built /\ apc[c] = "idle"
        /\ Len(allowLog) + Cardinality(InFlightCalls) < MaxCalls
        /\ IF newTokens < Scale
           THEN /\ allowLog' = Append(allowLog, [type |-> jobType, time |-> clock, ok |-> FALSE])
                /\ UNCHANGED <<apc, aread>>
           ELSE /\ apc' = [apc EXCEPT ![c] = "take"]
                /\ aread' = [aread EXCEPT ![c] = [type |-> jobType, newTokens |-> newTokens,
                                                  now |-> clock]]
                /\ UNCHANGED allowLog
        /\ UNCHANGED <<clock, redisLimiter, rl_limits, rl_tokens, callersRest>>

\* the second pipeline: SET of the tokens and HSET of last_updated, and
\* the return
AllowWrite(c, brokerOk) ==
    LET a == aread[c]
    IN  /\ apc[c] = "take"
        /\ IF brokerOk
           THEN /\ rl_tokens' = Store(rl_tokens, a.type, Fixed6(a.newTokens - Scale))
                /\ rl_limits' = [rl_limits EXCEPT
                                   ![a.type] = Store(@, "last_updated", RFC3339(a.now))]
           ELSE UNCHANGED <<rl_limits, rl_tokens>>
        /\ allowLog' = Append(allowLog, [type |-> a.type, time |-> a.now, ok |-> brokerOk])
        /\ apc' = [apc EXCEPT ![c] = "idle"]
        /\ aread' = [aread EXCEPT ![c] = NoRead]
        /\ UNCHANGED <<clock, redisLimiter, callersRest>>

NextRedisLimiter ==
    \/ NewRedisCall
    \/ RedisClockTick
    \/ \E c \in Callers, jobType \in LimTypes : AllowRead(c, jobType)
    \/ \E c \in Callers, brokerOk \in BOOLEAN : AllowWrite(c, brokerOk)

SpecRedisLimiter == Init /\ [][NextRedisLimiter]_vars

(***************************************************************************)
(* Pool.Start and Pool.Stop with the wait group: the worker goroutines and *)
(* the metrics goroutine, the timer of Stop and its select.                *)
(***************************************************************************)
\* config.ShutdownTimeout, in ticks
ShutdownTimeout == 2

stopRest == <<priorityRatio, schedVars, dlq_stats, regVars, limVars, callVars>>

\* a producer of jobs of a registered type
StopProducer == submitJob("echo", "{\"x\":1}", 0, TRUE)

\* main: NewPool and Pool.Start, which starts the workers and collectMetrics
PoolStart ==
    /\ ~procUp
    /\ procUp' = TRUE
    /\ aggPc' = "running"
    /\ stopPc' = "idle"
    /\ stopElapsed' = 0
    /\ fired' = FALSE
    /\ lastOp' = NoOp
    /\ UNCHANGED <<brokerVars, stopRest, cancelled, wpc, wjob, wstats, retryTasks, statTasks,
                   histVars>>

\* Pool.Stop up to its select: p.cancel(), the goroutine waiting on the
\* wait group, and the timer
PoolStop ==
    /\ procUp /\ ~cancelled /\ stopPc = "idle"
    /\ cancelled' = TRUE
    /\ stopPc' = "waiting"
    /\ stopElapsed' = 0
    /\ fired' = FALSE
    /\ lastOp' = NoOp
    /\ UNCHANGED <<brokerVars, stopRest, aggPc, procUp, wpc, wjob, wstats, retryTasks,
                   statTasks, histVars>>

\* collectMetrics sees the cancelled context and returns
AggregatorReturns ==
    /\ procUp /\ cancelled /\ aggPc = "running"
    /\ aggPc' = "returned"
    /\ lastOp' = NoOp
    /\ UNCHANGED <<brokerVars, stopRest, stopPc, stopElapsed, fired, procVars, histVars>>

\* p.wg.Wait() returns and done is closed: every worker goroutine and the
\* metrics goroutine has called p.wg.Done()
WaitGroupWorkersOnly == \A w \in Workers : wpc[w] = "returned"
WaitGroupDone == (\A w \in Workers : wpc[w] = "returned") /\ aggPc = "returned"

\* time passes while Stop is in its select
StopTick ==
    /\ procUp /\ stopPc = "waiting" /\ stopElapsed < ShutdownTimeout
    /\ stopElapsed' = stopElapsed + 1
    /\ lastOp' = NoOp
    /\ UNCHANGED <<brokerVars, stopRest, stopPc, fired, aggPc, procVars, histVars>>

\* time.After(p.shutdownTimeout) delivers; the select is still blocked
\* unless done was closed first
TimerFires ==
    /\ procUp /\ stopPc = "waiting" /\ stopElapsed = ShutdownTimeout
    /\ ~fired /\ ~WaitGroupDone
    /\ fired' = TRUE
    /\ lastOp' = NoOp
    /\ UNCHANGED <<brokerVars, stopRest, stopPc, stopElapsed, aggPc, procVars, histVars>>

\* the select of Pool.Stop takes the case that became ready, and Stop
\* returns nil or the timeout error
StopReturns ==
    /\ procUp /\ stopPc = "waiting"
    /\ fired \/ WaitGroupDone
    /\ stopPc' = IF fired THEN "timeout" ELSE "nil"
    /\ lastOp' = NoOp
    /\ UNCHANGED <<brokerVars, stopRest, stopElapsed, fired, aggPc, procVars, histVars>>

\* main returns after Pool.Stop has returned
MainExits ==
    /\ procUp /\ stopPc \in {"nil", "timeout"}
    /\ ProcessEnds
    /\ track' = Abandoned(track)
    /\ lastOp' = NoOp
    /\ UNCHANGED <<brokerVars, stopRest, stopVars, nextId, accepted, delivered>>

NextStop ==
    \/ StopProducer
    \/ PoolStart
    \/ \E w \in Workers, brokerOk \in BOOLEAN : FetchJob(w, brokerOk)
    \/ CountDequeue
    \/ \E w \in Workers : executeJob(w)
    \/ PoolStop
    \/ \E w \in Workers : WorkerReturns(w)
    \/ AggregatorReturns
    \/ StopTick
    \/ TimerFires
    \/ StopReturns
    \/ MainExits

SpecStop == Init /\ [][NextStop]_vars

(***************************************************************************)
(* Several goroutines inside PriorityQueue.Dequeue at once: the read of    *)
(* priority_counters, the BRPOP on the selected list, the BRPOP on the     *)
(* first other list and the statistics batch are separate broker commands. *)
(***************************************************************************)
conRest == <<dlq, priorityRatio, schedVars, dlq_stats, regVars, limVars, stopVars, repVars,
             procVars, nextId, accepted, track>>

\* getPriorityCounters and selectQueueByRatio
DqSelect(c) ==
    /\ cpc[c] = "idle"
    /\ cpc' = [cpc EXCEPT ![c] = "selected"]
    /\ cloc' = [cloc EXCEPT ![c] = [NoPop EXCEPT !.sel = selectQueueByRatio(priority_counters)]]
    /\ lastOp' = NoOp
    /\ UNCHANGED <<lists, queue_stats, priority_counters, delivered, conRest>>

\* BRPop(ctx, time.Second, queueKey): an element, or redis.Nil and on to
\* the blocking BRPop on the first other list
DqPop(c) ==
    LET sel == cloc[c].sel
    IN  /\ cpc[c] = "selected"
        /\ IF Len(lists[sel]) > 0
           THEN /\ lists' = RPop(lists, sel)
                /\ cloc' = [cloc EXCEPT ![c] = [sel |-> sel, key |-> sel,
                                                data |-> LastOf(lists, sel)]]
                /\ cpc' = [cpc EXCEPT ![c] = "popped"]
           ELSE /\ cpc' = [cpc EXCEPT ![c] = "waiting"]
                /\ UNCHANGED <<lists, cloc>>
        /\ lastOp' = NoOp
        /\ UNCHANGED <<queue_stats, priority_counters, delivered, conRest>>

\* BRPop(ctx, 0, key) on the first other list gets an element
DqWait(c) ==
    LET key == FirstOther(cloc[c].sel)
    IN  /\ cpc[c] = "waiting"
        /\ Len(lists[key]) > 0
        /\ lists' = RPop(lists, key)
        /\ cloc' = [cloc EXCEPT ![c] = [sel |-> cloc[c].sel, key |-> key,
                                        data |-> LastOf(lists, key)]]
        /\ cpc' = [cpc EXCEPT ![c] = "popped"]
        /\ lastOp' = NoOp
        /\ UNCHANGED <<queue_stats, priority_counters, delivered, conRest>>

\* the context ends while BRPop(ctx, 0, key) blocks
DqGiveUp(c) ==
    /\ cpc[c] = "waiting"
    /\ cpc' = [cpc EXCEPT ![c] = "idle"]
    /\ cloc' = [cloc EXCEPT ![c] = NoPop]
    /\ lastOp' = [op |-> "PriorityQueue.Dequeue", wellFormed |-> TRUE, broker |-> "ok",
                  err |-> "failed to dequeue job", id |-> "", job |-> NoJob]
    /\ UNCHANGED <<lists, queue_stats, priority_counters, delivered, conRest>>

\* the statistics batch after the pop, and the return of Dequeue
DqCount(c, brokerOk) ==
    LET pr == PriorityOfKey(cloc[c].key)
        j == Unmarshal(cloc[c].data)
    IN  /\ cpc[c] = "popped"
        /\ IF brokerOk
           THEN /\ queue_stats' = [queue_stats EXCEPT !.total_dequeued = @ + 1,
                                                      !.dequeued[pr] = @ + 1]
                /\ priority_counters' = [priority_counters EXCEPT ![pr] = @ + 1]
                /\ delivered' = delivered \cup {j.ID}
           ELSE UNCHANGED <<queue_stats, priority_counters, delivered>>
        /\ lastOp' = [op |-> "PriorityQueue.Dequeue", wellFormed |-> TRUE,
                      broker |-> IF brokerOk THEN "ok" ELSE "stats",
                      err |-> IF brokerOk THEN "" ELSE "failed to update dequeue stats",
                      id |-> IF brokerOk THEN j.ID ELSE "",
                      job |-> IF brokerOk THEN j ELSE NoJob]
        /\ cpc' = [cpc EXCEPT ![c] = "idle"]
        /\ cloc' = [cloc EXCEPT ![c] = NoPop]
        /\ UNCHANGED <<lists, conRest>>

\* producers of complete jobs, one of each priority and one for job_queue
ConsumerJobs ==
    {NewJob(IdTable[nextId], "echo", "{\"x\":1}", 0, prio) :
        prio \in {Absent, StrVal(PriorityHigh), StrVal(PriorityLow)}}
ConsumerEnqueue ==
    /\ nextId <= MaxJobs
    /\ \E j \in ConsumerJobs : SubmitPriority(j, TRUE)
ConsumerEnqueuePlain ==
    /\ nextId <= MaxJobs
    /\ SubmitSimple(NewJob(IdTable[nextId], "echo", "{\"x\":1}", 0, Absent), TRUE)

NextConsumers ==
    \/ ConsumerEnqueue
    \/ ConsumerEnqueuePlain
    \/ Consumer
    \/ CountDequeue
    \/ \E c \in Consumers : DqSelect(c)
    \/ \E c \in Consumers : DqPop(c)
    \/ \E c \in Consumers : DqWait(c)
    \/ \E c \in Consumers : DqGiveUp(c)
    \/ \E c \in Consumers, brokerOk \in BOOLEAN : DqCount(c, brokerOk)

SpecConsumers == Init /\ [][NextConsumers]_vars

\* The PriorityQueue alone under its concurrent consumers.
NextPriorityConsumers ==
    \/ ConsumerEnqueue
    \/ \E c \in Consumers : DqSelect(c)
    \/ \E c \in Consumers : DqPop(c)
    \/ \E c \in Consumers : DqWait(c)
    \/ \E c \in Consumers : DqGiveUp(c)
    \/ \E c \in Consumers, brokerOk \in BOOLEAN : DqCount(c, brokerOk)

SpecPriorityConsumers == Init /\ [][NextPriorityConsumers]_vars

(***************************************************************************)
(* internal/queue/dlq.go: RedisDLQ.Reprocess command by command, under     *)
(* NReprocessors concurrent callers.  LRANGE, LREM, the main queue's       *)
(* Enqueue and the statistics batch are four broker round trips, and       *)
(* another caller's commands may fall between any two of them.             *)
(***************************************************************************)
repRest == <<priority_counters, procVars, histVars, priorityRatio, schedVars, regVars,
             limVars, stopVars, conVars>>

\* LRANGE dlq:jobs 0 -1 and the search for the id
RpList(p, jobID) ==
    LET i == FirstWithId(dlq, jobID)
    IN  /\ ppc[p] = "idle"
        /\ IF i > 0
           THEN /\ ppc' = [ppc EXCEPT ![p] = "found"]
                /\ ploc' = [ploc EXCEPT ![p] = dlq[i]]
                /\ UNCHANGED lastOp
           ELSE /\ lastOp' = [op |-> "RedisDLQ.Reprocess", wellFormed |-> TRUE,
                              broker |-> "ok", err |-> "job not found in DLQ",
                              id |-> jobID, job |-> NoJob]
                /\ UNCHANGED <<ppc, ploc>>
        /\ UNCHANGED <<lists, queue_stats, dlq, dlq_stats, repRest>>

\* LREM dlq:jobs 1 item; the number of entries removed is not read
RpRemove(p) ==
    /\ ppc[p] = "found"
    /\ dlq' = LRem(dlq, ploc[p])
    /\ ppc' = [ppc EXCEPT ![p] = "removed"]
    /\ UNCHANGED <<lists, queue_stats, dlq_stats, ploc, lastOp, repRest>>

\* d.queue.Enqueue of the job with its attempts reset
RpEnqueue(p) ==
    LET j == [Unmarshal(ploc[p].job) EXCEPT !.Attempts = 0]
        r == RedisQueueEnqueue(j, TRUE)
    IN  /\ ppc[p] = "removed"
        /\ lists' = r.lists
        /\ queue_stats' = r.stats
        /\ ppc' = [ppc EXCEPT ![p] = "enqueued"]
        /\ UNCHANGED <<dlq, dlq_stats, ploc, lastOp, repRest>>

\* the batch HINCRBY total -1, type:<t> -1, reprocessed +1, and the return
RpStats(p) ==
    LET j == Unmarshal(ploc[p].job)
    IN  /\ ppc[p] = "enqueued"
        /\ dlq_stats' = [dlq_stats EXCEPT !.total = @ - 1, !.type[j.Type] = @ - 1,
                                          !.reprocessed = @ + 1]
        /\ lastOp' = [op |-> "RedisDLQ.Reprocess", wellFormed |-> TRUE, broker |-> "ok",
                      err |-> "", id |-> j.ID, job |-> NoJob]
        /\ ppc' = [ppc EXCEPT ![p] = "idle"]
        /\ ploc' = [ploc EXCEPT ![p] = NoEntry]
        /\ UNCHANGED <<lists, queue_stats, dlq, repRest>>

NextReprocessors ==
    \/ ReprocessorSend
    \/ \E p \in Reprocessors, jobID \in Ids : RpList(p, jobID)
    \/ \E p \in Reprocessors : RpRemove(p)
    \/ \E p \in Reprocessors : RpEnqueue(p)
    \/ \E p \in Reprocessors : RpStats(p)

SpecReprocessors == Init /\ [][NextReprocessors]_vars

(***************************************************************************)
(* The retry branch of the worker loop on its own: jobs of a failing type  *)
(* are queued, the workers fetch them, and each dispatch is taken from the *)
(* point where Process has returned a Failed result (part_007:154).        *)
(***************************************************************************)
\* one job more than the pool has workers
RetryJobs == Concurrency + 1

RetryProducer ==
    /\ nextId <= RetryJobs
    /\ SubmitSimple(NewJob(IdTable[nextId], "always_fails", "{\"x\":1}", MaxCap, Absent), TRUE)

\* executeJob, case StatusFailed: count the failure, and when the job has
\* tries left count the retry and start the retry goroutine; the worker goes
\* back to its loop without waiting for it.
DispatchFails(w) ==
    LET j == IncrementAttempts(wjob[w])
    IN  /\ procUp /\ wpc[w] = "holding"
        /\ lastOp' = NoOp
        /\ IF ShouldRetry(j)
           THEN /\ wstats' = [wstats EXCEPT ![w].jobsFailed = @ + 1,
                                            ![w].jobsRetried = @ + 1]
                /\ retryTasks' = retryTasks \cup {requeueJobWithDelay(j)}
                /\ track' = [Dispatched(j, "retrying") EXCEPT
                               ![j.ID].delays = Append(@, RetryDelay(j.Attempts))]
           ELSE /\ wstats' = [wstats EXCEPT ![w].jobsFailed = @ + 1]
                /\ retryTasks' = retryTasks
                /\ track' = Dispatched(j, "failed")
        /\ wpc' = [wpc EXCEPT ![w] = "idle"]
        /\ wjob' = [wjob EXCEPT ![w] = NoJob]
        /\ UNCHANGED <<brokerVars, restVars, procUp, cancelled, statTasks, nextId, accepted,
                       delivered>>

NextRetries ==
    \/ RetryProducer
    \/ Start
    \/ \E w \in Workers, brokerOk \in BOOLEAN : FetchJob(w, brokerOk)
    \/ CountDequeue
    \/ \E w \in Workers : DispatchFails(w)
    \/ \E t \in retryTasks, brokerOk \in BOOLEAN : retryEnqueue(t, brokerOk)

SpecRetries == Init /\ [][NextRetries]_vars

(***************************************************************************)
(* selectQueueByRatio on its own: a PriorityQueue whose weights were set   *)
(* by SetPriorityRatio (any integers) and a hash priority_counters as the  *)
(* dequeues left it; the call computes the key of the list to pop.         *)
(***************************************************************************)
MaxWeight == 5
MaxCount == 4
Weights == -1 .. MaxWeight
Counts == 0 .. MaxCount

InitRatio ==
    /\ lists = [k \in QueueKeys |-> <<>>]
    /\ queue_stats = NoQueueStats
    /\ priority_counters \in [Priorities -> Counts]
    /\ dlq = <<>>
    /\ procUp = FALSE
    /\ cancelled = FALSE
    /\ wpc = [w \in Workers |-> "idle"]
    /\ wjob = [w \in Workers |-> NoJob]
    /\ wstats = [w \in Workers |-> ZeroStats]
    /\ retryTasks = {}
    /\ statTasks = 0
    /\ nextId = 1
    /\ accepted = [i \in {} |-> NoJob]
    /\ track = [i \in {} |-> NoTrack]
    /\ delivered = {}
    /\ lastOp = NoOp
    /\ priorityRatio \in [Priorities -> Weights]
    /\ InitSched
    /\ InitMore

SelectCall ==
    /\ lastOp.op = "none"
    /\ lastOp' = [op |-> "selectQueueByRatio", wellFormed |-> TRUE, broker |-> "ok",
                  err |-> "", id |-> selectQueueByRatio(priority_counters),
                  job |-> NoJob]
    /\ UNCHANGED <<brokerVars, restVars, procVars, histVars>>

NextRatio == SelectCall

SpecRatio == InitRatio /\ [][NextRatio]_vars

(***************************************************************************)
(* A PriorityQueue with the default weights into which QueuedEach jobs of  *)
(* each priority have been enqueued, and a consumer that calls Dequeue     *)
(* until Window jobs have been returned.                                   *)
(***************************************************************************)
QueuedEach == 100
Window == 100

QueuedId(p, i) == p \o "_" \o ToString(i)
QueuedJob(p, i) == NewJob(QueuedId(p, i), "echo", "{\"x\":1}", 0, StrVal(p))
QueuedIds == {QueuedId(p, i) : p \in Priorities, i \in 1 .. QueuedEach}
\* the list of priority p after the enqueues: the last job at the head
QueuedList(p) == [i \in 1 .. QueuedEach |-> Marshal(QueuedJob(p, QueuedEach + 1 - i))[1]]

InitFairness ==
    /\ lists = [k \in QueueKeys |->
                  IF k = jobQueueKey THEN <<>> ELSE QueuedList(PriorityOfKey(k))]
    /\ queue_stats = [NoQueueStats EXCEPT
                         !.total_enqueued = 3 * QueuedEach,
                         !.enqueued = [p \in Priorities |-> QueuedEach]]
    /\ priority_counters = [p \in Priorities |-> 0]
    /\ dlq = <<>>
    /\ procUp = FALSE
    /\ cancelled = FALSE
    /\ wpc = [w \in Workers |-> "idle"]
    /\ wjob = [w \in Workers |-> NoJob]
    /\ wstats = [w \in Workers |-> ZeroStats]
    /\ retryTasks = {}
    /\ statTasks = 0
    /\ nextId = 1
    /\ accepted = [id \in QueuedIds |->
                     CHOOSE j \in {QueuedJob(p, i) : p \in Priorities, i \in 1 .. QueuedEach} :
                         j.ID = id]
    /\ track = [i \in {} |-> NoTrack]
    /\ delivered = {}
    /\ lastOp = NoOp
    /\ InitRest

\* Dequeue with the broker reachable, or down for the whole call
WindowDequeue ==
    /\ Cardinality(delivered) < Window
    /\ \E broker \in {"ok", "down"} : PriorityDequeue(broker)

NextFairness == WindowDequeue

SpecFairness == InitFairness /\ [][NextFairness]_vars


\* The worker process under the scheduling the runtime and a supervisor
\* give it: every goroutine that can take a step eventually takes it, a
\* process that is down is started again, a cancelled pool exits.
FairSpec ==
    /\ Spec
    /\ WF_vars(Start)
    /\ \A w \in Workers : WF_vars(\E brokerOk \in BOOLEAN : FetchJob(w, brokerOk))
    /\ \A w \in Workers : WF_vars(executeJob(w))
    /\ \A w \in Workers : WF_vars(WorkerReturns(w))
    /\ WF_vars(CountDequeue)
    /\ WF_vars(Exit)

(***************************************************************************)
(* requeueJobWithDelay on its own: a worker holds a job whose attempt      *)
(* number a has just failed below the cap, schedules the retry, and the    *)
(* retry goroutine enqueues the job after its sleep.                       *)
(***************************************************************************)
FailedJobs ==
    {[NewJob(IdTable[1], t, "{\"x\":1}", MaxAttempt + 1, Absent) EXCEPT !.Attempts = a] :
        t \in {"flaky", "always_fails"}, a \in 1 .. MaxAttempt}

InitBackoff ==
    /\ lists = [k \in QueueKeys |-> <<>>]
    /\ queue_stats = NoQueueStats
    /\ priority_counters = [p \in Priorities |-> 0]
    /\ dlq = <<>>
    /\ procUp = TRUE
    /\ cancelled = FALSE
    /\ \E j \in FailedJobs :
          /\ wjob = [w \in Workers |-> IF w = 1 THEN j ELSE NoJob]
          /\ accepted = (j.ID :> [j EXCEPT !.Attempts = 0])
          /\ track = (j.ID :> [NoTrack EXCEPT !.dispatches = j.Attempts,
                                              !.attempts = j.Attempts,
                                              !.outcome = "failed"])
    /\ wpc = [w \in Workers |-> IF w = 1 THEN "holding" ELSE "idle"]
    /\ wstats = [w \in Workers |-> ZeroStats]
    /\ retryTasks = {}
    /\ statTasks = 0
    /\ nextId = 2
    /\ delivered = {}
    /\ lastOp = NoOp
    /\ InitRest

\* The retry branch of executeJob: count the retry and hand the job to
\* requeueJobWithDelay.
ScheduleRetry(w) ==
    /\ procUp /\ wpc[w] = "holding" /\ ShouldRetry(wjob[w])
    /\ wstats' = [wstats EXCEPT ![w].jobsRetried = @ + 1]
    /\ retryTasks' = retryTasks \cup {requeueJobWithDelay(wjob[w])}
    /\ track' = [track EXCEPT ![wjob[w].ID].outcome = "retrying",
                              ![wjob[w].ID].delays = Append(@, RetryDelay(wjob[w].Attempts))]
    /\ wpc' = [wpc EXCEPT ![w] = "idle"]
    /\ wjob' = [wjob EXCEPT ![w] = NoJob]
    /\ lastOp' = NoOp
    /\ UNCHANGED <<brokerVars, restVars, procUp, cancelled, statTasks, nextId, accepted, delivered>>

NextBackoff ==
    \/ \E w \in Workers : ScheduleRetry(w)
    \/ \E t \in retryTasks, brokerOk \in BOOLEAN : retryEnqueue(t, brokerOk)

SpecBackoff == InitBackoff /\ [][NextBackoff]_vars


(***************************************************************************)
(* Where a job is, and what the counters of the pool add up to.            *)
(***************************************************************************)
InList(id, key) == \E i \in 1 .. Len(lists[key]) : lists[key][i].id = id
InQueue(id) == \E key \in QueueKeys : InList(id, key)
Held(id) == procUp /\ \E w \in Workers : wpc[w] = "holding" /\ wjob[w].ID = id
RetryPending(id) == \E t \in retryTasks : t.job.ID = id
DLQEntries(id) == {i \in 1 .. Len(dlq) : dlq[i].job.id = id}
Completed(id) == id \in DOMAIN track /\ track[id].outcome = "completed"
Total(field) ==
    LET S[w \in 0 .. Concurrency] == IF w = 0 THEN 0 ELSE S[w - 1] + wstats[w][field]
    IN  S[Concurrency]
\* the job as its last dispatch saw it
AsDispatched(id) == [accepted[id] EXCEPT !.Attempts = track[id].attempts]
MaxOf(a, b) == IF a >= b THEN a ELSE b
\* min(2^(k-1), 300)
BackoffSeconds(k) ==
    LET D[i \in 1 .. k] == IF i = 1 THEN 1
                           ELSE IF D[i - 1] * 2 >= 300 THEN 300 ELSE D[i - 1] * 2
    IN  D[k]

\* No retry goroutine is ever started by the worker process: every dispatch
\* ends in the panic of Process before executeJob reaches its switch.
NoRetryTask == retryTasks = {}

\* C1: job conservation.  Every job accepted by Enqueue is, in every
\* reachable state, completed, or in the DLQ with attempts equal to its
\* cap, or still in the system (in a queue, in the hands of a live worker,
\* or with a retry goroutine that will enqueue it).
JobConservation ==
    \A id \in DOMAIN accepted :
        \/ Completed(id)
        \/ \E i \in DLQEntries(id) : dlq[i].job.attempts = accepted[id].MaxRetries
        \/ InQueue(id)
        \/ Held(id)
        \/ RetryPending(id)

\* C2: at-least-once.  A job that a worker had dequeued when the process
\* died, before the outcome of the job was recorded, is eventually in a
\* queue again.
DiedInFlight(id) == id \in DOMAIN track /\ track[id].outcome \in {"panic", "abandoned"}
AtLeastOnce == \A id \in Ids : DiedInFlight(id) ~> InQueue(id)

\* C3: dead-lettering.  Once the dispatch of a job has failed with the
\* attempts of the job at or above its cap, the DLQ holds exactly one entry
\* for the job, carrying the error of the handler, the failure is counted
\* and no retry is scheduled.
Exhausted(id) ==
    /\ id \in DOMAIN track
    /\ track[id].outcome \in {"failed", "panic"}
    /\ Handle(AsDispatched(id)) # ""
    /\ track[id].attempts >= accepted[id].MaxRetries
DeadLetterOnExhaustion ==
    \A id \in DOMAIN accepted :
        Exhausted(id) =>
            /\ Cardinality(DLQEntries(id)) = 1
            /\ \A i \in DLQEntries(id) : dlq[i].error = Handle(AsDispatched(id))
            /\ ~RetryPending(id)
            /\ (procUp => Total("jobsFailed") >= 1)

FailedBelowCap(id) ==
    /\ id \in DOMAIN track
    /\ track[id].outcome \in {"retrying", "panic"}
    /\ Handle(AsDispatched(id)) # ""
    /\ track[id].attempts < accepted[id].MaxRetries
RetryEventuallyPending == \A id \in Ids : FailedBelowCap(id) ~> InQueue(id)

\* C6: retry then succeed.  When the only job is one with cap 3 whose
\* handler fails twice and then succeeds, and the workers are done with it,
\* it is completed at attempt 3 after retry delays of 1 s and 2 s, with the
\* counters at retried 2, failed 2, processed 1.
Settled(id) ==
    /\ id \in DOMAIN track /\ track[id].dispatches > 0
    /\ ~InQueue(id) /\ ~Held(id) /\ ~RetryPending(id)
RetryThenSucceed ==
    \A id \in DOMAIN accepted :
        (/\ DOMAIN accepted = {id}
         /\ accepted[id].Type = "flaky" /\ accepted[id].MaxRetries = 3
         /\ Settled(id))
        => /\ track[id].outcome = "completed"
           /\ track[id].attempts = 3
           /\ track[id].delays = <<Second, Mul64(Nat64(2), Second)>>
           /\ (procUp => /\ Total("jobsRetried") = 2
                         /\ Total("jobsFailed") = 2
                         /\ Total("jobsProcessed") = 1)

\* C7: backoff.  The retry scheduled after attempt k of a job that keeps
\* failing waits min(2^(k-1), 300) seconds.
BackoffDelay ==
    \A t \in retryTasks : t.delay = Mul64(Nat64(BackoffSeconds(t.job.Attempts)), Second)

\* C8: simple success.  When the only job is one of a registered type
\* whose handler returns nil and a worker has dispatched it, the dispatch
\* ended Completed, the processed counter is 1, the queue is empty and the
\* DLQ has no entry.
SimpleSuccess ==
    \A id \in DOMAIN track :
        (/\ DOMAIN accepted = {id}
         /\ accepted[id].Type = "echo"
         /\ track[id].dispatches > 0)
        => /\ track[id].outcome = "completed"
           /\ (procUp => Total("jobsProcessed") = 1)
           /\ Len(lists[jobQueueKey]) = 0
           /\ dlq = <<>>

\* C9: Enqueue of an invalid job (empty id, empty type, empty payload or
\* negative cap), on either queue, returns the validation error and leaves
\* every list and every counter of queue_stats as it was.
EnqueueOps == {"RedisQueue.Enqueue", "PriorityQueue.Enqueue"}
InvalidEnqueueRejected ==
    [][(lastOp'.op \in EnqueueOps /\ ~lastOp'.wellFormed)
          => /\ lastOp'.err = "job validation failed"
             /\ lists' = lists
             /\ queue_stats' = queue_stats]_vars
\* an invalid job has been refused while the lists held jobs
InvalidEnqueueSeen ==
    /\ lastOp.op \in EnqueueOps /\ ~lastOp.wellFormed
    /\ lastOp.err = "job validation failed"
    /\ Len(lists[jobQueueKey]) > 0
    /\ \E key \in {highPriorityQueueKey, normalPriorityQueueKey, lowPriorityQueueKey} :
          Len(lists[key]) > 0

\* C10: priority routing.  Every job in a priority list has a priority
\* (Job.GetPriority) among high, normal and low, which is the priority
\* Enqueue gave it and the priority of the list it is in.
PriorityRouting ==
    \A key \in {highPriorityQueueKey, normalPriorityQueueKey, lowPriorityQueueKey} :
        \A i \in 1 .. Len(lists[key]) :
            LET j == Unmarshal(lists[key][i])
            IN  /\ GetPriority(j) \in Priorities
                /\ GetPriority(j) = EnqueuePriority(j)
                /\ key = QueueKeyOf(EnqueuePriority(j))


(***************************************************************************)
(* The order of a list, the selection by ratio and what a Dequeue on       *)
(* empty or failing lists does.                                            *)
(***************************************************************************)
DequeueOps == {"RedisQueue.Dequeue", "PriorityQueue.Dequeue"}

\* C11: FIFO within a list.  Whenever a Dequeue returns a job, every job
\* still in the list it came from was enqueued after it: of two jobs
\* enqueued into the same list the earlier one is returned first.
FIFOWithinList ==
    [][lastOp'.op \in DequeueOps /\ lastOp'.id # ""
       => \A key \in QueueKeys :
            InList(lastOp'.id, key) /\ Len(lists'[key]) < Len(lists[key])
            => \A i \in 1 .. Len(lists'[key]) :
                 Rank(Unmarshal(lists'[key][i]).ID) > Rank(lastOp'.id)]_vars

\* PriorityQueue.Dequeue has returned the first job while the second one,
\* enqueued into the same list, is still waiting.
FIFOSeen ==
    /\ lastOp.op = "PriorityQueue.Dequeue"
    /\ lastOp.id = IdTable[1]
    /\ IdTable[1] \in DOMAIN accepted
    /\ InList(IdTable[2], QueueKeyOf(EnqueuePriority(accepted[IdTable[1]])))

\* The ratio W(p)/(C(p)+1) against W(q)/(C(q)+1), as fractions.
RatioAbove(p, q) ==
    priorityRatio[p] * (priority_counters[q] + 1)
        > priorityRatio[q] * (priority_counters[p] + 1)
RatioEqual(p, q) == ~RatioAbove(p, q) /\ ~RatioAbove(q, p)
\* the priorities that come before p in the order high, normal, low
Before(p) ==
    CASE p = PriorityHigh -> {}
      [] p = PriorityNormal -> {PriorityHigh}
      [] OTHER -> {PriorityHigh, PriorityNormal}
Selected == PriorityOfKey(lastOp.id)

\* C12: weighted-fairness selection.  For every weight triple and every
\* counter triple the list selectQueueByRatio returns has the maximal
\* ratio W(p)/(C(p)+1), and no list that comes before it in the order
\* high, normal, low has the same ratio.
SelectsMaximalRatio ==
    lastOp.op = "selectQueueByRatio"
    => /\ lastOp.id \in {highPriorityQueueKey, normalPriorityQueueKey,
                         lowPriorityQueueKey}
       /\ \A q \in Priorities : ~RatioAbove(q, Selected)
       /\ \A q \in Before(Selected) : RatioAbove(Selected, q)

\* normal and low tie at the maximum, high is below: normal is selected
TieSelected ==
    /\ lastOp.op = "selectQueueByRatio"
    /\ lastOp.id = normalPriorityQueueKey
    /\ RatioEqual(PriorityNormal, PriorityLow)
    /\ RatioAbove(PriorityNormal, PriorityHigh)

\* the jobs of priority p among those Dequeue has returned
Returned(p) == {id \in delivered : GetPriority(accepted[id]) = p}

\* C13: priority fairness scenario.  From zero counters, with 100 jobs in
\* each of the three lists and the weights 5:3:1, the first 100 jobs
\* Dequeue returns contain at least 50 high and at least 11 low jobs.
FairnessScenario ==
    Cardinality(delivered) = Window
    => /\ Cardinality(Returned(PriorityHigh)) >= 50
       /\ Cardinality(Returned(PriorityLow)) >= 11

\* the window is full and jobs of all three priorities are in it
WindowFull ==
    /\ Cardinality(delivered) = Window
    /\ \A p \in Priorities : Returned(p) # {}

InPriorityList(id) ==
    \E k \in {highPriorityQueueKey, normalPriorityQueueKey, lowPriorityQueueKey} :
        InList(id, k)

\* C14: no priority is starved.  A job waiting in a priority list is
\* eventually returned by Dequeue when the consumer keeps calling it,
\* whatever is in the other two lists.
NoStarvation ==
    \A id \in Ids : [](InPriorityList(id) => <>(id \in delivered))

\* the lists a Dequeue method consumes are all empty
EmptyFor(op) ==
    IF op = "RedisQueue.Dequeue" THEN lists[jobQueueKey] = <<>>
    ELSE \A k \in {highPriorityQueueKey, normalPriorityQueueKey, lowPriorityQueueKey} :
            lists[k] = <<>>

\* C15: a Dequeue on empty lists, the broker reachable, returns nil (no
\* job and no error) and moves no counter, for RedisQueue.Dequeue and for
\* PriorityQueue.Dequeue with its three lists empty.
EmptyDequeueReturnsNil ==
    [][lastOp' # lastOp /\ lastOp'.op \in DequeueOps /\ lastOp'.broker = "ok"
       /\ EmptyFor(lastOp'.op)
       => /\ lastOp'.err = ""
          /\ lastOp'.id = ""
          /\ priority_counters' = priority_counters
          /\ queue_stats' = queue_stats]_vars

\* C16: round trip.  A job that was enqueued, dequeued and enqueued
\* again with no handler in between has the id, type, cap, attempt counter
\* and (byte for byte) the payload of the job first enqueued.
RoundTripIdentical ==
    lastOp.op = "PriorityQueue.Enqueue" /\ lastOp.err = "" /\ lastOp.id \in delivered
    => \A key \in QueueKeys :
         \A i \in 1 .. Len(lists[key]) :
            Unmarshal(lists[key][i]).ID = lastOp.id
            => /\ Unmarshal(lists[key][i]).Type = accepted[lastOp.id].Type
               /\ Unmarshal(lists[key][i]).MaxRetries = accepted[lastOp.id].MaxRetries
               /\ Unmarshal(lists[key][i]).Attempts = accepted[lastOp.id].Attempts
               /\ Unmarshal(lists[key][i]).Payload = accepted[lastOp.id].Payload

\* C17: broker errors never lose a job.  A call of Enqueue or Dequeue in
\* which a broker command fails (the statistics update after a pop
\* included) returns its error and leaves every job where it was: no list
\* has changed.
BrokerErrorKeepsJobs ==
    [][lastOp' # lastOp /\ lastOp'.op \in EnqueueOps \cup DequeueOps
       /\ lastOp'.broker # "ok" /\ lastOp'.err # ""
       => lists' = lists]_vars

(***************************************************************************)
(* The scheduled queue.                                                    *)
(***************************************************************************)
InScheduledSet(id) == \E e \in scheduled_jobs : e.member.job.id = id
\* how many copies of the job the main queue holds
Copies(id) ==
    Cardinality({i \in 1 .. Len(lists[jobQueueKey]) : lists[jobQueueKey][i].id = id})
AllIdle == \A t \in Tickers : tpc[t] = "idle"

\* C18: no double promotion.  ProcessDueJobs pushes each due entry of the
\* scheduled set to the main queue once, also when the call is fired
\* again or two processes run it over the same scheduled set.
NoDoublePromotion == \A id \in DOMAIN promoted : promoted[id] <= 1

\* C19: scheduled promotion.  A job accepted by Schedule(J, t) is not in
\* the main queue before a ProcessDueJobs call at a time >= t; once such a
\* call has processed it, it is in the main queue and no longer in the
\* scheduled set; and it is there to be processed exactly once.
ScheduledPromotion ==
    \A id \in DOMAIN oneTime :
        /\ Copies(id) > 0 => now >= oneTime[id]
        /\ id \in moved => Copies(id) > 0 /\ ~InScheduledSet(id)
        /\ Copies(id) <= 1

\* C20: recurring schedule.  Once ScheduleRecurring has succeeded, the
\* scheduled set holds an occurrence of that schedule in every state
\* between ProcessDueJobs calls, whatever failed during the calls.
RecurringKept ==
    AllIdle => \A c \in recurring :
                  \E e \in scheduled_jobs :
                      e.member.recurring /\ e.member.cron_expression = c

\* the job ids the broker holds or has held
KnownIds ==
    {e.member.job.id : e \in scheduled_jobs}
        \cup {lists[jobQueueKey][i].id : i \in 1 .. Len(lists[jobQueueKey])}
        \cup DOMAIN promoted
InDue(member) == \E u \in Tickers : \E i \in 1 .. Len(tdue'[u]) : tdue'[u][i] = member

InDLQ(id) == \E i \in 1 .. Len(dlq) : dlq[i].job.id = id
ReprocessStep == lastOp' # lastOp /\ lastOp'.op = "RedisDLQ.Reprocess"

\* C22: Reprocess of an id that is not in the DLQ returns the not-found
\* error and changes nothing: the DLQ list, the main queues and the DLQ
\* and queue counters stay as they are.
ReprocessAbsent ==
    [][ReprocessStep /\ lastOp'.broker = "ok" /\ ~InDLQ(lastOp'.id)
       => /\ lastOp'.err = "job not found in DLQ"
          /\ dlq' = dlq
          /\ lists' = lists
          /\ dlq_stats' = dlq_stats
          /\ queue_stats' = queue_stats
          /\ priority_counters' = priority_counters]_vars

\* a Reprocess of the job that an earlier Reprocess has moved already
ReprocessAbsentSeen ==
    /\ lastOp.op = "RedisDLQ.Reprocess"
    /\ lastOp.err = "job not found in DLQ"
    /\ dlq_stats.reprocessed = 1
    /\ Copies(lastOp.id) = 1

\* how many entries of the DLQ hold the job
DLQCopies(l, id) == Cardinality({i \in 1 .. Len(l) : l[i].job.id = id})
MainCopies(l, id) ==
    Cardinality({i \in 1 .. Len(l[jobQueueKey]) : l[jobQueueKey][i].id = id})

\* C23: Reprocess of an id that is in the DLQ takes exactly one entry of
\* that job out of the DLQ, enqueues the job with attempts 0 into the main
\* queue, counts total and the type down by one and reprocessed up by one;
\* and when the enqueue step fails the job is still in the DLQ.
ReprocessPresent ==
    [][ReprocessStep /\ InDLQ(lastOp'.id)
       => /\ lastOp'.broker = "ok"
             => /\ lastOp'.err = ""
                /\ Len(dlq') = Len(dlq) - 1
                /\ DLQCopies(dlq', lastOp'.id) = DLQCopies(dlq, lastOp'.id) - 1
                /\ MainCopies(lists', lastOp'.id) = MainCopies(lists, lastOp'.id) + 1
                /\ Head(lists'[jobQueueKey]).id = lastOp'.id
                /\ Head(lists'[jobQueueKey]).attempts = 0
                /\ dlq_stats'.total = dlq_stats.total - 1
                /\ dlq_stats'.reprocessed = dlq_stats.reprocessed + 1
          /\ lastOp'.err = "failed to requeue job"
             => DLQCopies(dlq', lastOp'.id) = DLQCopies(dlq, lastOp'.id)]_vars

(***************************************************************************)
(* The registry.                                                           *)
(***************************************************************************)
\* the calls of the log that registered a handler of the type
Successes(log, t) == {i \in 1 .. Len(log) : log[i].err = "" /\ log[i].handler.type = t}
RegistryTypes == {h.type : h \in Handlers} \ {""}
\* The log and the map agree: nil and the empty type were refused; of the
\* calls for a type the first to get in succeeded and no other did; the
\* type maps to the handler of that call.
FirstWins(log, hs) ==
    /\ \A i \in 1 .. Len(log) :
          log[i].handler = NilHandler \/ log[i].handler.type = "" => log[i].err # ""
    /\ \A t \in RegistryTypes :
          /\ Cardinality(Successes(log, t)) <= 1
          /\ (t \in DOMAIN hs) = (Successes(log, t) # {})
          /\ \A i \in Successes(log, t) : hs[t] = log[i].handler
          /\ \A i \in 1 .. Len(log) :
                log[i].handler.type = t /\ log[i].err # ""
                => \E k \in Successes(log, t) : k < i

\* C24: Register refuses a nil handler, an empty type and a type that is
\* registered, and a refused call leaves the mapping as it is; whatever the
\* interleaving of the calls, each type maps to the handler of the first
\* call that succeeded and exactly one call per type succeeds.
RegisterFirstWins ==
    [][regLog' # regLog
       => /\ regLog'[Len(regLog')].err # "" => handlers' = handlers
          /\ FirstWins(regLog', handlers')
          /\ \A t \in RegistryTypes :
                t \in DOMAIN handlers' => Get(t)'.handler = handlers'[t]]_vars

\* two goroutines registered handlers of one type, one after the other got
\* the mutex: the first one is in the map, the second was refused
DuplicateRefused ==
    /\ Len(regLog) = 2
    /\ regLog[1].handler.type = "echo" /\ regLog[1].err = ""
    /\ regLog[2].handler.type = "echo" /\ regLog[2].err = "handler already exists"
    /\ regLog[2].handler # regLog[1].handler
    /\ handlers["echo"] = regLog[1].handler

\* C25: a panic during Process stays inside the worker.  Every step in
\* which a worker dispatches a job leaves the process running, the worker
\* back in its loop, and the dispatch recorded with a JobResult (completed,
\* failed, or failed and retrying), never as a panic.
PanicContained ==
    [][\A id \in DOMAIN track' :
          (\/ id \notin DOMAIN track
           \/ track'[id].dispatches > track[id].dispatches)
          => /\ procUp'
             /\ track'[id].outcome \in {"completed", "failed", "retrying"}
             /\ \A w \in Workers :
                   (wpc[w] = "holding" /\ wjob[w].ID = id) => wpc'[w] = "idle"]_vars

\* The bucket of a type as the next Allow call will see it: the units in it,
\* the time of its last update, and what min(B, tokens + elapsed*R) comes to
\* at time t, for the rate and burst the limiter was constructed with.
BucketTokens(l, type) == Lookup(l.tokenBuckets, type, l.defaultBurst * Scale)
BucketLast(l, type, t) == Lookup(l.lastAllowed, type, t - Day)
Available(l, type, t) ==
    LET full == l.defaultBurst * Scale
        sum == BucketTokens(l, type) + (t - BucketLast(l, type, t)) * l.defaults
    IN  IF sum > full THEN full ELSE sum
SameBuckets(l1, l2, types) ==
    \A u \in types :
        /\ \A t \in clock .. MaxClock + 1 : Available(l1, u, t) = Available(l2, u, t)
        /\ u \in DOMAIN l1.tokenBuckets => l2.tokenBuckets[u] = l1.tokenBuckets[u]
        /\ u \in DOMAIN l1.lastAllowed => l2.lastAllowed[u] = l1.lastAllowed[u]
\* the admissions of a type among the calls i .. j
AdmittedIn(log, i, j, type) ==
    Cardinality({k \in i .. j : log[k].ok /\ log[k].type = type})
WindowBound(log, l) ==
    \A i, j \in DOMAIN log :
        (i <= j /\ log[i].ok /\ log[j].ok /\ log[i].type = log[j].type)
        => AdmittedIn(log, i, j, log[i].type) * Scale
             <= l.defaultBurst * Scale + l.defaults * (log[j].time - log[i].time)

\* C27: the local limiter with a fixed rate R and burst B.  An Allow call
\* answers true exactly when min(B, tokens + elapsed*R) >= 1 and then takes
\* exactly one token from that amount and leaves the buckets of the other
\* types alone; a denied call leaves every bucket as it was; and the
\* admissions of a type over any stretch of time of length t number at most
\* B + R*t.
TokenBucketBound ==
    [][allowLog' # allowLog =>
          LET e == allowLog'[Len(allowLog')]
              avail == Available(localLimiter, e.type, clock)
          IN  /\ e.ok <=> avail >= Scale
              /\ e.ok => /\ Available(localLimiter', e.type, clock) = avail - Scale
                         /\ localLimiter'.lastAllowed[e.type] = clock
                         /\ SameBuckets(localLimiter, localLimiter', LimTypes \ {e.type})
              /\ ~e.ok => SameBuckets(localLimiter, localLimiter', LimTypes)
              /\ WindowBound(allowLog', localLimiter')]_vars

\* a type was admitted, then denied with the bucket empty, then admitted
\* again after the refill
RefillSeen ==
    \E i, j, k \in DOMAIN allowLog :
        /\ i < j /\ j < k
        /\ allowLog[i].type = allowLog[j].type /\ allowLog[j].type = allowLog[k].type
        /\ allowLog[i].ok /\ ~allowLog[j].ok /\ allowLog[k].ok
        /\ allowLog[k].time > allowLog[j].time
        /\ localLimiter.defaults > 0

\* C26: the worker asks the limiter before it dispatches, and dispatches
\* only on admission.  Every job a worker has dispatched (attempt counted,
\* Process called) has had an Allow call for its type answered true by a
\* limiter the process has constructed.
AdmissionAsked ==
    \A id \in DOMAIN track :
        track[id].dispatches > 0
        => /\ localLimiter.built
           /\ \E i \in DOMAIN allowLog :
                 allowLog[i].ok /\ allowLog[i].type = accepted[id].Type

\* the callers that have passed the test of newTokens for a type and have
\* their write still to do
Taking(type) == {c \in Callers : apc[c] = "take" /\ aread[c].type = type}

\* C28: concurrent calls of RedisRateLimiter.Allow for one type.  The
\* callers that are admitted together, each having found a token before any
\* of them has written the bucket back, number at most two more than the
\* tokens that were in the bucket when they read it.
OverAdmissionBounded ==
    \A type \in LimTypes : \A c \in Taking(type) :
        Cardinality(Taking(type)) * Scale <= aread[c].newTokens + 2 * Scale

\* every task the wait group of the pool counts has finished
AllTasksFinished == aggPc = "returned" /\ \A w \in Workers : wpc[w] = "returned"
Dispatches(t, id) == IF id \in DOMAIN t THEN t[id].dispatches ELSE 0

Popped == {c \in Consumers : cpc[c] = "popped"}
\* no entry is held twice, and an entry held or returned is in no list
EntriesApart ==
    /\ \A c, d \in Popped : c # d => cloc[c].data.id # cloc[d].data.id
    /\ \A c \in Popped : ~InQueue(cloc[c].data.id) /\ cloc[c].data.id \notin delivered
    /\ \A id \in delivered : ~InQueue(id)

\* C31: no duplicate delivery.  With every job enqueued once, a Dequeue
\* call of either queue that returns a job returns one that no call has
\* returned before and that no other caller holds; the entries the
\* concurrent callers have popped are different ones, and an entry popped
\* or returned is in no list any more.
NoDuplicateDelivery ==
    [][/\ (lastOp'.op \in {"RedisQueue.Dequeue", "PriorityQueue.Dequeue"}
           /\ lastOp'.job # NoJob)
          => /\ lastOp'.id \notin delivered
             /\ lastOp'.id \in delivered'
             /\ \A c \in Consumers : cpc'[c] = "popped" => cloc'[c].data.id # lastOp'.id
       /\ EntriesApart']_vars

\* two callers of PriorityQueue.Dequeue hold a popped entry at the same time
TwoPopped == Cardinality(Popped) = 2

\* enqueued:<p> - dequeued:<p> against the length of queue:<p>
Drift(p) ==
    LET d == queue_stats.enqueued[p] - queue_stats.dequeued[p] - Len(lists[QueueKeyOf(p)])
    IN  IF d < 0 THEN 0 - d ELSE d
SumOver(f) == f[PriorityHigh] + f[PriorityNormal] + f[PriorityLow]

\* C37: counter drift.  For each priority p, enqueued:<p> - dequeued:<p>
\* differs from the length of queue:<p> by at most the number of Dequeue
\* calls that have popped an entry and not yet run their statistics batch
\* (Enqueue moves list and counters in one batch); and with no call under
\* way total_enqueued is the sum of the enqueued:<p>, total_dequeued the sum
\* of the dequeued:<p>, and priority_counters[p] = dequeued:<p>.
CounterDriftBounded ==
    /\ \A p \in Priorities : Drift(p) <= Cardinality(Popped)
    /\ (\A c \in Consumers : cpc[c] = "idle")
       => /\ queue_stats.total_enqueued = SumOver(queue_stats.enqueued)
          /\ queue_stats.total_dequeued = SumOver(queue_stats.dequeued)
          /\ \A p \in Priorities : priority_counters[p] = queue_stats.dequeued[p]

\* the entries of the main queue that carry the id
QueuedWithId(id) == {i \in 1 .. Len(lists[jobQueueKey]) : lists[jobQueueKey][i].id = id}

\* C38: concurrent Reprocess of one DLQ id.  Each id is sent to the DLQ once,
\* so however the callers' commands interleave the main queue holds at most
\* one entry with the id, and the counters, decremented once for it, never
\* fall below zero: total and every type:<t> stay >= 0 and reprocessed never
\* exceeds the number of jobs sent.
ReprocessAtMostOnce ==
    /\ \A id \in Ids : Cardinality(QueuedWithId(id)) <= 1
    /\ dlq_stats.total >= 0
    /\ \A t \in DOMAIN dlq_stats.type : dlq_stats.type[t] >= 0
    /\ dlq_stats.reprocessed <= nextId - 1

\* C40: backoff range.  Whatever the attempt count a >= 1 of the failed job,
\* the delay of the retry requeueJobWithDelay scheduled is at least one
\* second and at most five minutes, as int64 nanoseconds.
BackoffRange ==
    \A t \in retryTasks :
        t.job.Attempts >= 1 => /\ ~Gt64(Second, t.delay)
                               /\ ~Gt64(t.delay, FiveMinutes)

AttemptsInRange(a, c) == 0 <= a /\ a <= c + 1

Members == {e.member : e \in scheduled_jobs}

NextTokens(l, type, t) ==
    LET limit == Lookup(l.limits, type, l.defaults)
        burst == Lookup(l.bursts, type, l.defaultBurst)
    IN  Cap(BucketTokens(l, type) + (t - BucketLast(l, type, t)) * limit, burst)

\* C36: SetLimit does not refill retroactively.  A SetLimit call that
\* changes the rate of a type whose bucket exists and keeps its burst does
\* not raise the tokens an Allow call at that instant would find: the time
\* that passed before the call is credited at the old rate.
SetLimitNotRetroactive ==
    [][\A type \in LimTypes :
          (/\ type \in DOMAIN localLimiter.tokenBuckets
           /\ localLimiter'.tokenBuckets = localLimiter.tokenBuckets
           /\ localLimiter'.lastAllowed = localLimiter.lastAllowed
           /\ localLimiter'.bursts = localLimiter.bursts
           /\ localLimiter'.limits[type] # localLimiter.limits[type]
           /\ clock' = clock)
          => NextTokens(localLimiter', type, clock) <= NextTokens(localLimiter, type, clock)]_vars

\* C34: no handler.  A job of a type without a registered handler that a
\* worker has dispatched got a Failed result, once, and no retry: no retry
\* delay was scheduled for it, no retry task holds it and it is in no main
\* queue again, whatever its cap.
UnknownTypeFails ==
    \A id \in DOMAIN track \cap DOMAIN accepted :
        (accepted[id].Type \notin Registered /\ track[id].dispatches > 0)
        => /\ track[id].outcome = "failed"
           /\ track[id].dispatches = 1
           /\ track[id].delays = <<>>
           /\ \A t \in retryTasks : t.job.ID # id
           /\ \A key \in QueueKeys : \A i \in 1 .. Len(lists[key]) : lists[key][i].id # id

\* the DLQ entries of a type
DLQOfType(t) == {i \in 1 .. Len(dlq) : dlq[i].job.type = t}

=============================================================================
